---- MODULE Spec2Model ----
(***************************************************************************)
(* A model of cumulus-fhir-support:                                        *)
(*   - http.parse_retry_after      (SpecParse)                             *)
(*   - http._request_once          (SpecOnce)                              *)
(*   - http.http_request           (SpecHttp)                              *)
(*   - client.FhirClient lifecycle (SpecClient)                            *)
(*   - schemas._get_shape_of_dicts over a batch (SpecShape)                *)
(*   - schemas.pyarrow_schema_from_rows          (SpecSchema)              *)
(*   - ml_json.read_multiline_json_with_details  (SpecRead)                *)
(*   - ml_json.list_multiline_json_in_dir        (SpecList)                *)
(*   - ml_json.read_multiline_json_from_dir      (SpecDir)                 *)
(*   - ml_json._list_local_files on linked trees (SpecWalk, SpecWalkFair)  *)
(* Each specification drives one group of variables and leaves the other   *)
(* groups at their idle values.                                            *)
(***************************************************************************)
EXTENDS Integers, Sequences, FiniteSets, TLC

VARIABLES
    \* ---- parse_retry_after(response, default) ----
    p_pc,        \* "call" before the call, "done" after it
    p_header,    \* the response's Retry-After header
    p_default,   \* the default argument
    p_now,       \* datetime.now(utc), in ticks
    p_result,    \* what the call did: a return value or a raised exception
    \* ---- _request_once(client, method, url, ...) ----
    o_pc,        \* "call" before the call, "done" after it
    o_reply,     \* what the server (or the transport) does with the request
    o_result,    \* the response returned or the exception raised
    \* ---- http_request(client, method, url, ...) ----
    h_pc,            \* "request", "reauth", "evaluate" or "done"
    h_plan,          \* the caller's retry_delays, in minutes
    h_slot,          \* position of the loop in retry_delays + [None]
    h_auth_callback, \* whether auth_callback was given
    h_callbacks,     \* which of request_callback, error_callback, retry_callback were given
    h_headers,       \* generation of the auth headers in `headers`
    h_error,         \* the local `error`
    h_log,           \* the requests sent so far: status, headers used, loop slot
    h_sleeps,        \* the arguments of asyncio.sleep so far
    h_calls,         \* how often each callback was invoked
    h_plain,         \* every reply so far was a response without a Retry-After header
    h_evaluated,     \* the errors that reached error_callback, one entry per evaluation
    h_result,        \* how the call ended: a response or an exception
    \* ---- FhirClient ----
    c_pc,            \* where the client is in its life: "unopened", "opened" (session
                     \* made, __aenter__ running), "probed", "ready", "closed", "failed"
    c_server_root,   \* whether a server url was given
    c_client_id,     \* whether smart_client_id was given
    c_session,       \* self._session: "None", or the state of the AsyncClient it holds
    c_open,          \* how many AsyncClient sessions are open
    c_server_type,   \* self._server_type
    c_capabilities,  \* self._capabilities
    c_probe,         \* what the last metadata fetch met
    c_raised,        \* the exception that left the last __aenter__, or None
    c_entries,       \* how often the context was entered
    c_requests,      \* the request() calls so far: client state, outcome
    \* ---- the row loop of pyarrow_schema_from_rows, on free-form rows ----
    m_pc,            \* "row" while rows remain, "done" after the loop
    m_rows,          \* the batch
    m_next,          \* index of the row the loop takes next
    m_shape,         \* batch_shape
    \* ---- pyarrow_schema_from_rows(resource_type, rows) ----
    s_pc,            \* "row" in and right after the row loop, "done" after the call
    s_resource_type, \* the resource_type argument
    s_spot,          \* the property whose declared type is unknown to the builder, or <<>>
    s_rows,          \* the rows argument
    s_next,          \* index of the row the loop takes next
    s_batch_shape,   \* batch_shape
    s_contained_types, \* contained_types
    s_schema,        \* the schema returned, or the ValueError raised
    \* ---- read_multiline_json_with_details(path, offset) ----
    r_pc,            \* "open" before the file is opened, "lines" in the loop, "done"
    r_file,          \* the file at `path`: whether it can be opened, and its bytes
    r_offset,        \* the offset argument
    r_pos,           \* position of the file object
    r_line_num,      \* what enumerate() gives the next line
    r_byte_total,    \* byte_total
    r_yielded,       \* the items yielded so far
    r_warnings,      \* the line numbers logger.warning reported so far
    r_errors,        \* how often logger.error was called
    \* ---- list_multiline_json_in_dir(path, resource) ----
    l_pc,            \* "list" before the listing, "child" in the loop, "done", "raised"
    l_dir,           \* the folder at `path`: whether it exists, and its entries
    l_resource,      \* the resource argument
    l_target,        \* the coalesced `resource`
    l_children,      \* sorted(children)
    l_next,          \* index of the child the loop takes next
    l_results,       \* `results`, in insertion order
    l_warnings,      \* the paths logger.warning reported so far
    \* ---- read_multiline_json_from_dir(path, resource) ----
    d_pc,            \* "list" before the listing, "file" between files, "lines" in
                     \* a file, "done", "raised"
    d_dir,           \* the folder at `path`
    d_resource,      \* the resource argument
    d_listing,       \* what list_multiline_json_in_dir returned, in key order
    d_next,          \* index of the listed file the loop takes next
    d_reader,        \* the generator reading the current file
    d_rows,          \* the values yielded so far, each with the file and line it came from
    \* ---- _list_local_files(path, recursive) on a tree with symbolic links ----
    w_pc,            \* "start" before the call, "walk" in the os.walk loop, "done", "raised"
    w_exists,        \* whether `path` exists
    w_links,         \* where each symbolic link of the tree points, or NoLink if it is absent
    w_recursive,     \* the recursive argument
    w_loop_raises,   \* whether Path.resolve() raises on a symlink loop (Python before 3.13)
    w_stack,         \* the directories os.walk has still to scan, as paths below `path`
    w_results,       \* `results`
    w_scans          \* how many directories os.walk has scanned

p_vars == <<p_pc, p_header, p_default, p_now, p_result>>
o_vars == <<o_pc, o_reply, o_result>>
h_vars == <<h_pc, h_plan, h_slot, h_auth_callback, h_callbacks, h_headers, h_error,
            h_log, h_sleeps, h_calls, h_plain, h_evaluated, h_result>>

c_vars == <<c_pc, c_server_root, c_client_id, c_session, c_open, c_server_type,
            c_capabilities, c_probe, c_raised, c_entries, c_requests>>

m_vars == <<m_pc, m_rows, m_next, m_shape>>

s_vars == <<s_pc, s_resource_type, s_spot, s_rows, s_next, s_batch_shape,
            s_contained_types, s_schema>>

r_vars == <<r_pc, r_file, r_offset, r_pos, r_line_num, r_byte_total, r_yielded,
            r_warnings, r_errors>>

l_vars == <<l_pc, l_dir, l_resource, l_target, l_children, l_next, l_results, l_warnings>>

d_vars == <<d_pc, d_dir, d_resource, d_listing, d_next, d_reader, d_rows>>

w_vars == <<w_pc, w_exists, w_links, w_recursive, w_loop_raises, w_stack, w_results, w_scans>>

vars == <<p_vars, o_vars, h_vars, c_vars, m_vars, s_vars, r_vars, l_vars, d_vars, w_vars>>

\* What an action of one group leaves alone: every other group.
rest_p == <<o_vars, h_vars, c_vars, m_vars, s_vars, r_vars, l_vars, d_vars, w_vars>>
rest_o == <<p_vars, h_vars, c_vars, m_vars, s_vars, r_vars, l_vars, d_vars, w_vars>>
rest_h == <<p_vars, o_vars, c_vars, m_vars, s_vars, r_vars, l_vars, d_vars, w_vars>>
rest_c == <<p_vars, o_vars, h_vars, m_vars, s_vars, r_vars, l_vars, d_vars, w_vars>>
rest_m == <<p_vars, o_vars, h_vars, c_vars, s_vars, r_vars, l_vars, d_vars, w_vars>>
rest_s == <<p_vars, o_vars, h_vars, c_vars, m_vars, r_vars, l_vars, d_vars, w_vars>>
rest_r == <<p_vars, o_vars, h_vars, c_vars, m_vars, s_vars, l_vars, d_vars, w_vars>>
rest_l == <<p_vars, o_vars, h_vars, c_vars, m_vars, s_vars, r_vars, d_vars, w_vars>>
rest_d == <<p_vars, o_vars, h_vars, c_vars, m_vars, s_vars, r_vars, l_vars, w_vars>>
rest_w == <<p_vars, o_vars, h_vars, c_vars, m_vars, s_vars, r_vars, l_vars, d_vars>>

(***************************************************************************)
(* Bounds                                                                  *)
(***************************************************************************)
MaxHeaderLen == 2        \* longest Retry-After text drawn for parse_retry_after
MaxDefault == 2          \* defaults are drawn from -MaxDefault..MaxDefault
MaxClock == 2            \* timestamps and the clock run over 0..MaxClock seconds
TicksPerSecond == 2      \* the clock's sub-second resolution

(***************************************************************************)
(* Values                                                                  *)
(***************************************************************************)
None == "None"

Max(a, b) == IF a >= b THEN a ELSE b
Min(a, b) == IF a <= b THEN a ELSE b

\* Python's int() of a float truncates toward zero.
TruncDiv(a, b) == IF a >= 0 THEN a \div b ELSE -((-a) \div b)

DigitVal ==
    [c \in {"0", "1", "2", "3", "4", "5", "6", "7", "8", "9"} |->
        CASE c = "0" -> 0 [] c = "1" -> 1 [] c = "2" -> 2 [] c = "3" -> 3
          [] c = "4" -> 4 [] c = "5" -> 5 [] c = "6" -> 6 [] c = "7" -> 7
          [] c = "8" -> 8 [] c = "9" -> 9]

IsDigit(c) == c \in DOMAIN DigitVal

RECURSIVE DigitsValue(_)
DigitsValue(s) ==
    IF s = <<>> THEN 0
    ELSE 10 * DigitsValue(SubSeq(s, 1, Len(s) - 1)) + DigitVal[s[Len(s)]]

AllDigits(s) == Len(s) >= 1 /\ \A i \in 1..Len(s) : IsDigit(s[i])

\* int(value) for a str: an optional sign and then decimal digits; anything
\* else is a ValueError.  (Surrounding whitespace and "_" separators, which
\* int() also accepts, are not among the characters drawn here.)
PyInt(s) ==
    LET signed == Len(s) >= 1 /\ s[1] \in {"-", "+"}
        digits == IF signed THEN Tail(s) ELSE s
    IN  IF AllDigits(digits)
        THEN [ok |-> TRUE,
              val |-> IF signed /\ s[1] = "-" THEN -DigitsValue(digits)
                      ELSE DigitsValue(digits)]
        ELSE [ok |-> FALSE, val |-> 0]

\* A Retry-After header: absent, a text that is not an HTTP-date, or an
\* HTTP-date.  A date names the second `ts`; `aware` is FALSE for the dates
\* email.utils.parsedate_to_datetime returns without a timezone (the asctime
\* form "Sun Nov  6 08:49:37 1994", and the "-0000" zone).
NoHeader == [t |-> "absent", s |-> <<>>, ts |-> 0, aware |-> TRUE]
TextHeader(s) == [t |-> "text", s |-> s, ts |-> 0, aware |-> TRUE]
DateHeader(ts, aware) == [t |-> "date", s |-> <<>>, ts |-> ts, aware |-> aware]

Returned(v) == [kind |-> "return", value |-> v, exc |-> None]
Raised(e) == [kind |-> "raise", value |-> 0, exc |-> e]

\* email.utils.parsedate_to_datetime(value)
parsedate_to_datetime(h) ==
    IF h.t = "date"
    THEN [ok |-> TRUE, ts |-> h.ts, aware |-> h.aware]
    ELSE [ok |-> FALSE, ts |-> 0, aware |-> TRUE]

\* http.parse_retry_after(response, default), reading the clock at `now` ticks
parse_retry_after(h, default, now) ==
    LET asInt == IF h.t = "absent" THEN [ok |-> TRUE, val |-> default]
                 ELSE IF h.t = "text" THEN PyInt(h.s)
                 ELSE [ok |-> FALSE, val |-> 0]
        retry_time == parsedate_to_datetime(h)
        delay == retry_time.ts * TicksPerSecond - now
    IN  IF asInt.ok THEN Returned(Max(0, asInt.val))
        ELSE IF ~retry_time.ok THEN Returned(default)
        ELSE IF ~retry_time.aware THEN Raised("TypeError")
        ELSE Returned(Max(0, TruncDiv(delay, TicksPerSecond)))

(***************************************************************************)
(* _request_once                                                           *)
(***************************************************************************)
\* A response body, as far as the error message depends on it:
\*   json             "invalid" (response.json() raises JSONDecodeError),
\*                    "scalar" (JSON, but not an object) or "object"
\*   text             whether response.text is non-empty
\*   resourceType     "OperationOutcome" or "other" (an object's resourceType)
\*   issue            the object's "issue": "absent", "empty" (no element), or
\*                    what its first element gives: "details" (details.text),
\*                    "diagnostics" (no details.text), "bare" (neither)
\*   error_description, error_uri   whether the object has the key
Body(json, text, resourceType, issue, description, uri) ==
    [json |-> json, text |-> text, resourceType |-> resourceType, issue |-> issue,
     error_description |-> description, error_uri |-> uri]

EmptyBody == Body("invalid", FALSE, "other", "absent", FALSE, FALSE)
TextBody == Body("invalid", TRUE, "other", "absent", FALSE, FALSE)
OutcomeWithoutIssue == Body("object", TRUE, "OperationOutcome", "absent", FALSE, FALSE)

Bodies ==
    {EmptyBody, TextBody, Body("scalar", TRUE, "other", "absent", FALSE, FALSE)}
    \cup {Body("object", TRUE, "OperationOutcome", i, FALSE, FALSE) :
            i \in {"absent", "empty", "details", "diagnostics", "bare"}}
    \cup {Body("object", TRUE, "other", "absent", d, u) : d \in BOOLEAN, u \in BOOLEAN}

\* What happens to one request: the transport raises an httpx.HTTPError, or a
\* response arrives.
TransportError == [kind |-> "transport", status |-> 0, retry_after |-> NoHeader,
                   body |-> EmptyBody]
Response(status, retry_after, body) ==
    [kind |-> "response", status |-> status, retry_after |-> retry_after, body |-> body]
NoResponse == [kind |-> "none", status |-> 0, retry_after |-> NoHeader, body |-> EmptyBody]

\* The outcome of a call: the response returned (kind "response"), or the
\* exception raised: its class in `kind`, its response attribute, and where
\* its message came from.
Outcome(kind, response, message) ==
    [kind |-> kind, response |-> response, message |-> message]
Pending == Outcome("pending", NoResponse, None)

IsNetworkError(out) == out.kind \in {"FatalNetworkError", "TemporaryNetworkError"}

\* The message lines of _request_once: the source of the message, or the
\* exception that escapes while looking for one.
ErrorMessage(body) ==
    LET found ==
            IF body.json = "invalid" THEN [exc |-> None, from |-> "text", truthy |-> body.text]
            ELSE IF body.json = "scalar" THEN [exc |-> None, from |-> "text", truthy |-> body.text]
            ELSE IF body.resourceType = "OperationOutcome"
            THEN CASE body.issue = "absent" -> [exc |-> "KeyError", from |-> None, truthy |-> FALSE]
                   [] body.issue = "empty" -> [exc |-> "IndexError", from |-> None, truthy |-> FALSE]
                   [] body.issue = "details" -> [exc |-> None, from |-> "details", truthy |-> TRUE]
                   [] body.issue = "diagnostics" -> [exc |-> None, from |-> "diagnostics", truthy |-> TRUE]
                   [] OTHER -> [exc |-> None, from |-> None, truthy |-> FALSE]
            ELSE IF body.error_description
            THEN [exc |-> None, from |-> "error_description", truthy |-> TRUE]
            ELSE IF body.error_uri
            THEN [exc |-> None, from |-> "error_uri", truthy |-> TRUE]
            ELSE [exc |-> None, from |-> None, truthy |-> FALSE]
    IN  IF found.exc # None THEN [exc |-> found.exc, from |-> None]
        ELSE IF ~found.truthy THEN [exc |-> None, from |-> "exc"]
        ELSE [exc |-> None, from |-> found.from]

TemporaryStatuses == {408, 429, 500, 502, 503, 504}

\* response.raise_for_status() raises for every status that is not 2xx
IsSuccess(status) == status \in 200..299

ErrorClass(status) ==
    IF status \in TemporaryStatuses THEN "TemporaryNetworkError" ELSE "FatalNetworkError"

\* http._request_once: one request, answered by `reply`
request_once(reply) ==
    IF reply.kind = "transport" THEN Outcome("FatalNetworkError", NoResponse, "exc")
    ELSE IF IsSuccess(reply.status) THEN Outcome("response", reply, None)
    ELSE LET message == ErrorMessage(reply.body)
         IN  IF message.exc # None THEN Outcome(message.exc, NoResponse, None)
             ELSE Outcome(ErrorClass(reply.status), reply, message.from)

(***************************************************************************)
(* The inputs drawn                                                        *)
(***************************************************************************)
MaxRetries == 1          \* every retry_delays up to this length is drawn
MaxDelay == 2            \* retry delays are drawn from 0..MaxDelay minutes
MaxEntries == 2          \* how often one FhirClient is entered
MaxRequests == 2         \* how many request() calls one FhirClient sees

HeaderChars == {"0", "1", "7", "-", "x"}

RECURSIVE Strings(_)
Strings(n) ==
    IF n = 0 THEN {<<>>}
    ELSE Strings(n - 1) \cup
         {Append(s, c) : s \in {x \in Strings(n - 1) : Len(x) = n - 1}, c \in HeaderChars}

ParseHeaders ==
    {NoHeader}
    \cup {TextHeader(s) : s \in Strings(MaxHeaderLen)}
    \cup {DateHeader(ts, aware) : ts \in 0..MaxClock, aware \in BOOLEAN}

StatusCodes == 100..599

OnceReplies == {TransportError} \cup {Response(s, NoHeader, b) : s \in StatusCodes, b \in Bodies}

RECURSIVE Plans(_)
Plans(n) ==
    IF n = 0 THEN {<<>>}
    ELSE Plans(n - 1) \cup
         {Append(s, d) : s \in {x \in Plans(n - 1) : Len(x) = n - 1}, d \in 0..MaxDelay}

\* `[1, 1] if retry_delays is None`: the plan of a call that passes none
DefaultDelays == <<1, 1>>

\* The retry_delays http_request runs with: every short plan, the default one
\* and one with two different delays.
HttpPlans == Plans(MaxRetries) \cup {DefaultDelays, <<1, 2>>}

\* The replies the server of http_request picks from.  Retry-After is only
\* read off a temporary-class response, so only 503 carries the header values.
HttpHeaders ==
    {NoHeader, TextHeader(<<"1", "0">>), TextHeader(<<"2", "0", "0">>),
     TextHeader(<<"-", "5">>), TextHeader(<<"x">>),
     DateHeader(MaxClock, TRUE), DateHeader(0, FALSE)}

HttpBodies == {EmptyBody, OutcomeWithoutIssue}

HttpReplies ==
    {TransportError, Response(200, NoHeader, EmptyBody)}
    \cup {Response(s, NoHeader, b) : s \in {401, 404}, b \in HttpBodies}
    \cup {Response(503, h, b) : h \in HttpHeaders, b \in HttpBodies}

CallbackChoices ==
    {[request |-> b, error |-> b, retry |-> b] : b \in BOOLEAN}

(***************************************************************************)
(* http_request                                                            *)
(***************************************************************************)
\* The loop runs over retry_delays + [None]: the slot after the caller's last
\* delay is the None one.
DelayIsNone(plan, slot) == slot = Len(plan) + 1

ShouldRaiseOnLastSlotOnly(delayIsNone, error) == delayIsNone

\* `if delay is None or isinstance(error, FatalNetworkError): raise error`
ShouldRaise(delayIsNone, error) == delayIsNone \/ error.kind = "FatalNetworkError"

DelaySecondsServerWins(delay, response, now) ==
    IF response.kind = "response"
    THEN parse_retry_after(response.retry_after, delay * 60, now)
    ELSE Returned(delay * 60)

\* delay_seconds as the loop computes it: a value, or the exception that
\* parse_retry_after lets escape
DelaySeconds(delay, response, now) ==
    LET delay_seconds == delay * 60
        parsed == parse_retry_after(response.retry_after, delay_seconds, now)
    IN  IF response.kind = "response"
        THEN IF parsed.kind = "raise" THEN parsed
             ELSE Returned(Min(parsed.value, delay_seconds))
        ELSE Returned(delay_seconds)

\* `if error.response and error.response.status_code == 401 and auth_callback`
WantsReauth(error, auth_callback) ==
    /\ error.response.kind = "response"
    /\ error.response.status = 401
    /\ auth_callback

Sent(reply, headers, slot) == [status |-> reply.status, headers |-> headers, slot |-> slot]

Bump(calls, name, given) == IF given THEN [calls EXCEPT ![name] = @ + 1] ELSE calls

\* One of the two _request_once calls of an iteration and what follows it up to
\* the next await: the response is returned, a NetworkError is kept in `error`,
\* any other exception leaves http_request.
AfterRequest(reply, headers, mayReauth) ==
    LET out == request_once(reply)
    IN  /\ h_log' = Append(h_log, Sent(reply, headers, h_slot))
        /\ h_plain' = (h_plain /\ reply.kind = "response" /\ reply.retry_after = NoHeader)
        /\ IF IsNetworkError(out)
           THEN /\ h_error' = out
                /\ h_pc' = IF mayReauth /\ WantsReauth(out, h_auth_callback)
                           THEN "reauth" ELSE "evaluate"
                /\ h_result' = h_result
           ELSE /\ h_error' = h_error
                /\ h_pc' = "done"
                /\ h_result' = out

\* Top of the loop body: request_callback, then the first _request_once.
Attempt ==
    /\ h_pc = "request"
    /\ \E reply \in HttpReplies : AfterRequest(reply, h_headers, TRUE)
    /\ h_calls' = Bump(h_calls, "request", h_callbacks.request)
    /\ UNCHANGED <<h_plan, h_slot, h_auth_callback, h_callbacks, h_headers, h_sleeps,
                   h_evaluated>>
    /\ UNCHANGED rest_h

\* The 401 branch: auth_callback, headers.update, the second _request_once.
Reauth ==
    /\ h_pc = "reauth"
    /\ h_headers' = h_headers + 1
    /\ \E reply \in HttpReplies : AfterRequest(reply, h_headers', FALSE)
    /\ h_calls' = Bump(h_calls, "auth", TRUE)
    /\ UNCHANGED <<h_plan, h_slot, h_auth_callback, h_callbacks, h_sleeps, h_evaluated>>
    /\ UNCHANGED rest_h

\* What an evaluation leaves in h_evaluated: the error, the slot, how many
\* requests had been sent, and the clock reading if the Retry-After date was
\* compared with it.
Evaluated(error, slot, requests, raises, now) ==
    [kind |-> error.kind, status |-> error.response.status, slot |-> slot,
     requests |-> requests, retry_after |-> error.response.retry_after,
     now |-> IF ~raises /\ error.response.retry_after.t = "date" THEN now ELSE 0]

\* The rest of the loop body: error_callback, the raise, or retry_callback and
\* asyncio.sleep.
Evaluate ==
    /\ h_pc = "evaluate"
    /\ \E now \in 0..(MaxClock * TicksPerSecond) :
        LET afterError == Bump(h_calls, "error", h_callbacks.error)
            raises == ShouldRaise(DelayIsNone(h_plan, h_slot), h_error)
            wait == DelaySeconds(h_plan[h_slot], h_error.response, now)
        IN  /\ h_evaluated' =
                Append(h_evaluated, Evaluated(h_error, h_slot, Len(h_log), raises, now))
            /\ IF raises
               THEN /\ h_result' = h_error
                    /\ h_pc' = "done"
                    /\ h_calls' = afterError
                    /\ UNCHANGED <<h_sleeps, h_slot>>
               ELSE IF wait.kind = "raise"
               THEN /\ h_result' = Outcome(wait.exc, NoResponse, None)
                    /\ h_pc' = "done"
                    /\ h_calls' = afterError
                    /\ UNCHANGED <<h_sleeps, h_slot>>
               ELSE /\ h_calls' = Bump(afterError, "retry", h_callbacks.retry)
                    /\ h_sleeps' = Append(h_sleeps, wait.value)
                    /\ h_slot' = h_slot + 1
                    /\ h_pc' = "request"
                    /\ UNCHANGED h_result
    /\ UNCHANGED <<h_plan, h_auth_callback, h_callbacks, h_headers, h_error, h_log, h_plain>>
    /\ UNCHANGED rest_h

(***************************************************************************)
(* FhirClient                                                              *)
(***************************************************************************)
\* The body of a 200 answer to GET metadata:
\*   json        "invalid" (response.json() raises JSONDecodeError), "list"
\*               (JSON, but an array) or "object"
\*   publisher   the object's "publisher": "absent" or a string
\*   software    the object's "software": "absent", "Epic" / "other" (an object
\*               with that name) or "string" (not an object)
Statement(json, publisher, software) ==
    [json |-> json, publisher |-> publisher, software |-> software]

EmptyStatement == Statement("object", "absent", "absent")

Statements ==
    {Statement("invalid", "absent", "absent"), Statement("list", "absent", "absent")}
    \cup {Statement("object", p, s) :
            p \in {"absent", "SMART", "Cerner", "Oracle Health"},
            s \in {"absent", "Epic", "other", "string"}}

\* What the metadata fetch meets: http_request raises a NetworkError, lets
\* another exception escape, or returns a response with a statement.
Probe(kind, statement) == [kind |-> kind, statement |-> statement]
NoProbe == Probe("none", EmptyStatement)

Probes ==
    {Probe("NetworkError", EmptyStatement), Probe("escaped", EmptyStatement)}
    \cup {Probe("response", s) : s \in Statements}

\* The lines of _read_capabilities after response.json(): the exception that
\* escapes, or the server type found and whether the statement is stored.
ReadStatement(statement) ==
    IF statement.json = "invalid"
    THEN [exc |-> None, server_type |-> "UNKNOWN", keep |-> FALSE]
    ELSE IF statement.json = "list"
    THEN [exc |-> "AttributeError", server_type |-> "UNKNOWN", keep |-> FALSE]
    ELSE IF statement.publisher \in {"Cerner", "Oracle Health"}
    THEN [exc |-> None, server_type |-> "ORACLE", keep |-> TRUE]
    ELSE IF statement.software = "string"
    THEN [exc |-> "AttributeError", server_type |-> "UNKNOWN", keep |-> FALSE]
    ELSE IF statement.software = "Epic"
    THEN [exc |-> None, server_type |-> "EPIC", keep |-> TRUE]
    ELSE [exc |-> None, server_type |-> "UNKNOWN", keep |-> TRUE]

\* __aenter__, up to the first await: a new AsyncClient in self._session.  The
\* session it replaces, if any, stays as it is.
Enter ==
    /\ c_pc \in {"unopened", "closed", "failed"}
    /\ c_entries < MaxEntries
    /\ c_entries' = c_entries + 1
    /\ c_session' = "open"
    /\ c_open' = c_open + 1
    /\ c_raised' = None
    /\ c_pc' = "opened"
    /\ UNCHANGED <<c_server_root, c_client_id, c_server_type, c_capabilities, c_probe,
                   c_requests>>
    /\ UNCHANGED rest_c

\* __aenter__: `await self._read_capabilities()`.  An exception that escapes it
\* leaves __aenter__, so __aexit__ never runs.
ReadCapabilities ==
    /\ c_pc = "opened"
    /\ IF ~c_server_root
       THEN /\ c_pc' = "probed"
            /\ UNCHANGED <<c_server_type, c_capabilities, c_probe, c_raised>>
       ELSE \E probe \in Probes :
            LET read == ReadStatement(probe.statement)
            IN  /\ c_probe' = probe
                /\ IF probe.kind = "NetworkError"
                   THEN /\ c_pc' = "probed"
                        /\ UNCHANGED <<c_server_type, c_capabilities, c_raised>>
                   ELSE IF probe.kind = "escaped"
                   THEN /\ c_pc' = "failed"
                        /\ c_raised' = "KeyError"
                        /\ UNCHANGED <<c_server_type, c_capabilities>>
                   ELSE IF read.exc # None
                   THEN /\ c_pc' = "failed"
                        /\ c_raised' = read.exc
                        /\ UNCHANGED <<c_server_type, c_capabilities>>
                   ELSE /\ c_pc' = "probed"
                        /\ c_server_type' =
                               IF read.server_type = "UNKNOWN" THEN c_server_type
                               ELSE read.server_type
                        /\ c_capabilities' =
                               IF read.keep THEN probe.statement ELSE c_capabilities
                        /\ UNCHANGED c_raised
    /\ UNCHANGED <<c_server_root, c_client_id, c_session, c_open, c_entries, c_requests>>
    /\ UNCHANGED rest_c

\* __aenter__: `await self._auth.authorize(self._session)`, which returns or
\* raises an AuthError.
Authorize ==
    /\ c_pc = "probed"
    /\ \E ok \in BOOLEAN :
        IF ok
        THEN c_pc' = "ready" /\ UNCHANGED c_raised
        ELSE c_pc' = "failed" /\ c_raised' = "AuthError"
    /\ UNCHANGED <<c_server_root, c_client_id, c_session, c_open, c_server_type,
                   c_capabilities, c_probe, c_entries, c_requests>>
    /\ UNCHANGED rest_c

\* __aexit__, run when the body of the `async with` ends or raises.
Exit ==
    /\ c_pc = "ready"
    /\ IF c_session # "None"
       THEN /\ c_session' = "closed"
            /\ c_open' = IF c_session = "open" THEN c_open - 1 ELSE c_open
       ELSE UNCHANGED <<c_session, c_open>>
    /\ c_pc' = "closed"
    /\ UNCHANGED <<c_server_root, c_client_id, c_server_type, c_capabilities, c_probe,
                   c_raised, c_entries, c_requests>>
    /\ UNCHANGED rest_c

\* request(): the guard on self._session, then http_request on the session.
\* An AsyncClient that was closed refuses to send (httpx raises a RuntimeError
\* of its own from send()).
RequestOutcome(session) ==
    IF session = "None" THEN "usage error"
    ELSE IF session = "closed" THEN "client closed"
    ELSE "sent"

Request ==
    /\ c_pc \in {"unopened", "ready", "closed", "failed"}
    /\ Len(c_requests) < MaxRequests
    /\ c_requests' = Append(c_requests,
            [state |-> c_pc,
             outcome |-> RequestOutcome(c_session),
             epic_header |-> c_session = "open" /\ c_server_type = "EPIC" /\ c_client_id])
    /\ UNCHANGED <<c_pc, c_server_root, c_client_id, c_session, c_open, c_server_type,
                   c_capabilities, c_probe, c_raised, c_entries>>
    /\ UNCHANGED rest_c

(***************************************************************************)
(* schemas: JSON values and shapes                                         *)
(***************************************************************************)
\* A JSON value as _get_shape_of_dicts tells them apart: a dict (v maps its
\* keys to values), a list (v holds its elements) or anything else (v is the
\* text of a string, "" where the text does not matter).
Str(x) == [t |-> "scalar", v |-> x]
Scalar == Str("")
Dict(f) == [t |-> "dict", v |-> f]
List(s) == [t |-> "list", v |-> s]

\* A shape is a dict of shapes.  NoShape is the None that dict.get returns for
\* a missing key; EmptyShape is {}.
NoShape == [present |-> FALSE, kids |-> <<>>]
Shape(kids) == [present |-> TRUE, kids |-> kids]
EmptyShape == Shape(<<>>)

\* shape.get(key)
Get(shape, key) == IF key \in DOMAIN shape.kids THEN shape.kids[key] ELSE NoShape

\* `not shape`: None and {} are both falsy
Falsy(shape) == ~shape.present \/ DOMAIN shape.kids = {}

RECURSIVE get_shape_of_dicts(_, _)
RECURSIVE ShapeOfList(_, _)

\* `for x in item: total_shape = _get_shape_of_dicts(total_shape, x)`
ShapeOfList(total_shape, items) ==
    IF items = <<>> THEN total_shape
    ELSE ShapeOfList(get_shape_of_dicts(total_shape, Head(items)), Tail(items))

\* A merge that starts every key afresh instead of from total_shape.get(key).
get_shape_of_dicts_afresh(total_shape, item) ==
    LET shape == IF Falsy(total_shape) THEN EmptyShape ELSE total_shape
    IN  IF item.t = "list" THEN ShapeOfList(shape, item.v)
        ELSE IF item.t = "dict"
        THEN Shape([key \in DOMAIN shape.kids \cup DOMAIN item.v |->
                      IF key \in DOMAIN item.v
                      THEN get_shape_of_dicts(NoShape, item.v[key])
                      ELSE shape.kids[key]])
        ELSE shape

\* schemas._get_shape_of_dicts.  The keys of one dict are distinct, so the
\* loop over item.items() sets each key once, from the shape it had before.
get_shape_of_dicts(total_shape, item) ==
    LET shape == IF Falsy(total_shape) THEN EmptyShape ELSE total_shape
    IN  IF item.t = "list" THEN ShapeOfList(shape, item.v)
        ELSE IF item.t = "dict"
        THEN Shape([key \in DOMAIN shape.kids \cup DOMAIN item.v |->
                      IF key \in DOMAIN item.v
                      THEN get_shape_of_dicts(Get(shape, key), item.v[key])
                      ELSE shape.kids[key]])
        ELSE shape

\* `batch_shape = {}` and the loop `for row in rows` of pyarrow_schema_from_rows
RECURSIVE ShapeOfRows(_, _)
ShapeOfRows(batch_shape, rows) ==
    IF rows = <<>> THEN batch_shape
    ELSE ShapeOfRows(get_shape_of_dicts(batch_shape, Head(rows)), Tail(rows))

\* ---- free-form rows ----
MaxListLen == 1          \* longest list inside a free-form row

ShapeKeys == {"a", "b"}

DictsOver(values) == {Dict(f) : f \in UNION {[S -> values] : S \in SUBSET ShapeKeys}}

RECURSIVE SeqsUpTo(_, _)
SeqsUpTo(values, n) ==
    IF n = 0 THEN {<<>>}
    ELSE SeqsUpTo(values, n - 1) \cup
         {Append(s, x) : s \in {y \in SeqsUpTo(values, n - 1) : Len(y) = n - 1}, x \in values}

FlatDicts == DictsOver({Scalar})

ListElements == {Scalar} \cup {d \in FlatDicts : Cardinality(DOMAIN d.v) = 1}

InnerValues ==
    {Scalar} \cup FlatDicts \cup {List(s) : s \in SeqsUpTo(ListElements, MaxListLen)}

FreeRows == DictsOver(InnerValues)

\* One more row of the batch goes through _get_shape_of_dicts.
MergeRow ==
    /\ m_pc = "row"
    /\ m_shape' = get_shape_of_dicts(m_shape, m_rows[m_next])
    /\ m_next' = m_next + 1
    /\ m_pc' = IF m_next = Len(m_rows) THEN "done" ELSE "row"
    /\ UNCHANGED m_rows
    /\ UNCHANGED rest_m

(***************************************************************************)
(* schemas: the FHIR property tables and the PyArrow schema builder         *)
(***************************************************************************)
\* One entry of elementProperties(): the JSON name, the declared type (a
\* python type, or the name of a FHIR element class), is_list and required.
FhirProperty(json_name, pytype, is_list, required) ==
    [json_name |-> json_name, pytype |-> pytype, is_list |-> is_list, required |-> required]

One(json_name, pytype) == FhirProperty(json_name, pytype, FALSE, FALSE)
Many(json_name, pytype) == FhirProperty(json_name, pytype, TRUE, FALSE)
Required(json_name, pytype) == FhirProperty(json_name, pytype, FALSE, TRUE)

ElementProperties == <<One("id", "str"), Many("extension", "Extension")>>

BackboneProperties == ElementProperties \o <<Many("modifierExtension", "Extension")>>

ResourceProperties ==
    <<One("id", "str"), One("implicitRules", "str"), One("language", "str"),
      One("meta", "Meta")>>

DomainResourceProperties ==
    ResourceProperties \o <<Many("contained", "Resource"), Many("extension", "Extension")>>

\* What FHIRElementFactory.instantiate(name).elementProperties() and
\* prop.pytype().elementProperties() list, for a part of FHIR R4: the
\* properties of the superclass first, then the class's own.
FhirTable ==
    [Element |-> ElementProperties,
     Extension |-> ElementProperties \o
        <<Required("url", "str"), One("valueCoding", "Coding"), One("valueString", "str")>>,
     Coding |-> ElementProperties \o
        <<One("code", "str"), One("display", "str"), One("system", "str"),
          One("userSelected", "bool"), One("version", "str")>>,
     CodeableConcept |-> ElementProperties \o
        <<Many("coding", "Coding"), One("text", "str")>>,
     Period |-> ElementProperties \o
        <<One("end", "FHIRDate"), One("start", "FHIRDate")>>,
     Reference |-> ElementProperties \o
        <<One("display", "str"), One("identifier", "Identifier"),
          One("reference", "str"), One("type", "str")>>,
     Identifier |-> ElementProperties \o
        <<One("assigner", "Reference"), One("period", "Period"), One("system", "str"),
          One("type", "CodeableConcept"), One("use", "str"), One("value", "str")>>,
     Quantity |-> ElementProperties \o
        <<One("code", "str"), One("unit", "str"), One("value", "float")>>,
     Range |-> ElementProperties \o
        <<One("high", "Quantity"), One("low", "Quantity")>>,
     Meta |-> ElementProperties \o
        <<One("lastUpdated", "FHIRDate"), One("versionId", "str")>>,
     Resource |-> ResourceProperties,
     ConditionStage |-> BackboneProperties \o
        <<Many("assessment", "Reference"), One("summary", "CodeableConcept"),
          One("type", "CodeableConcept")>>,
     HumanName |-> ElementProperties \o
        <<One("family", "str"), Many("given", "str"), One("period", "Period"),
          Many("prefix", "str"), Many("suffix", "str"), One("text", "str"),
          One("use", "str")>>,
     PatientContact |-> BackboneProperties \o
        <<One("gender", "str"), One("name", "HumanName"), One("organization", "Reference"),
          One("period", "Period")>>,
     Condition |-> DomainResourceProperties \o
        <<One("code", "CodeableConcept"), One("onsetRange", "Range"),
          One("recordedDate", "FHIRDate"), Many("stage", "ConditionStage"),
          Required("subject", "Reference")>>,
     Medication |-> DomainResourceProperties \o
        <<One("code", "CodeableConcept"), One("status", "str")>>,
     Patient |-> DomainResourceProperties \o
        <<One("active", "bool"), Many("contact", "PatientContact"), One("gender", "str"),
          One("managingOrganization", "Reference"), One("multipleBirthInteger", "int")>>]

\* The table with the declared type of one property replaced by `object`, a
\* type _basic_fhir_to_pyarrow_type does not know.  spot = <<>> leaves the
\* table as it is.
WithUnexpectedType(table, spot) ==
    IF spot = <<>> THEN table
    ELSE [table EXCEPT ![spot[1]] =
            [i \in DOMAIN @ |->
                IF @[i].json_name = spot[2] THEN [@[i] EXCEPT !.pytype = "object"] ELSE @[i]]]

\* LEVEL_INCLUSION
LEVEL_INCLUSION == 1

\* PyArrow types and fields
Basic(k) == [k |-> k, fields |-> <<>>, of |-> <<>>]
Struct(fields) == [k |-> "struct", fields |-> fields, of |-> <<>>]
ListOf(type) == [k |-> "list", fields |-> <<>>, of |-> type]

\* pyarrow.field(name, type, nullable)
Field(name, type, nullable) == [name |-> name, type |-> type, nullable |-> nullable]

\* What converting one property gives: a field, None, or the ValueError
NoField == [kind |-> "none", field |-> Field("", Basic("none"), TRUE)]
SomeField(field) == [kind |-> "field", field |-> field]
UnexpectedType == [kind |-> "error", field |-> Field("", Basic("none"), TRUE)]

\* What converting a property list gives: the fields, or the ValueError
Fields(fields) == [err |-> FALSE, fields |-> fields]
FieldsError == [err |-> TRUE, fields |-> <<>>]

\* A conversion that lets an unknown type pass as a string.
basic_fhir_to_pyarrow_type_lenient(pytype) ==
    IF pytype = "int" THEN "int32"
    ELSE IF pytype = "float" THEN "float64"
    ELSE IF pytype = "bool" THEN "bool"
    ELSE "string"

\* schemas._basic_fhir_to_pyarrow_type; "" stands for the ValueError
basic_fhir_to_pyarrow_type(pytype) ==
    IF pytype = "int" THEN "int32"
    ELSE IF pytype = "float" THEN "float64"
    ELSE IF pytype = "str" THEN "string"
    ELSE IF pytype = "bool" THEN "bool"
    ELSE IF pytype = "FHIRDate" THEN "string"
    ELSE ""

\* full_schema_types
full_schema_types == {"CodeableConcept", "Coding", "Period", "Reference"}

\* issubclass(prop.pytype, fhirabstractbase.FHIRAbstractBase)
IsStruct(table, pytype) == pytype \in DOMAIN table

\* Inclusion forced for nothing: only what the batch shows is kept.
ForceInclusion_never(prop, base_obj) == FALSE

\* `force_inclusion`: the property sits in one of the full_schema_types and is
\* not an Extension.  base_obj is "None" for the call that converts a sunder.
ForceInclusion(prop, base_obj) ==
    base_obj \in full_schema_types /\ prop.pytype # "Extension"

\* Only structs skipped: a primitive is kept at every level.
Skipped_structs(is_struct, level, include_in_schema) ==
    is_struct /\ level >= LEVEL_INCLUSION /\ ~include_in_schema

\* Structs skipped only above LEVEL_INCLUSION, like the other properties.
Skipped_above(is_struct, level, include_in_schema) ==
    level > LEVEL_INCLUSION /\ ~include_in_schema

\* `if level >= LEVEL_INCLUSION and not include_in_schema: return None` (struct)
\* `if level > LEVEL_INCLUSION and not include_in_schema: return None` (other)
Skipped(is_struct, level, include_in_schema) ==
    IF is_struct THEN level >= LEVEL_INCLUSION /\ ~include_in_schema
    ELSE level > LEVEL_INCLUSION /\ ~include_in_schema

\* nullable taken from the declaration: `nullable=not prop.required`
Nullable_unless_required(prop) == ~prop.required

\* `nullable=True`, whatever prop.required says
Nullable(prop) == TRUE

\* `pyarrow.list_(pyarrow_type)` if prop.is_list
Wrapped(prop, type) == IF prop.is_list THEN ListOf(type) ELSE type

\* The sunder sibling's FhirProperty
SunderProperty(prop) ==
    FhirProperty("_" \o prop.json_name, "Element", prop.is_list, prop.required)

RECURSIVE fhir_obj_to_pyarrow_fields(_, _, _, _)
RECURSIVE fhir_to_pyarrow_property(_, _, _, _, _)
RECURSIVE PropertiesToFields(_, _, _, _, _)

\* schemas._fhir_to_pyarrow_property
fhir_to_pyarrow_property(table, prop, base_obj, parent_shape, level) ==
    LET batch_shape == IF parent_shape.present THEN Get(parent_shape, prop.json_name)
                       ELSE parent_shape
        include_in_schema == batch_shape.present \/ ForceInclusion(prop, base_obj)
        is_struct == IsStruct(table, prop.pytype)
    IN  IF Skipped(is_struct, level, include_in_schema) THEN NoField
        ELSE IF is_struct
        THEN LET children ==
                     fhir_obj_to_pyarrow_fields(table, prop.pytype, batch_shape, level + 1)
             IN  IF children.err THEN UnexpectedType
                 ELSE IF children.fields = <<>> THEN NoField
                 ELSE SomeField(Field(prop.json_name, Wrapped(prop, Struct(children.fields)),
                                      Nullable(prop)))
        ELSE LET basic == basic_fhir_to_pyarrow_type(prop.pytype)
             IN  IF basic = "" THEN UnexpectedType
                 ELSE SomeField(Field(prop.json_name, Wrapped(prop, Basic(basic)),
                                      Nullable(prop)))

\* schemas._sunder_to_pyarrow_property
sunder_to_pyarrow_property(table, prop, batch_shape) ==
    IF Falsy(batch_shape) \/ ("_" \o prop.json_name) \notin DOMAIN batch_shape.kids
    THEN NoField
    ELSE fhir_to_pyarrow_property(table, SunderProperty(prop), "None", batch_shape,
                                  LEVEL_INCLUSION)

\* The loop of _fhir_obj_to_pyarrow_fields over the properties still to do
PropertiesToFields(table, props, base_obj, batch_shape, level) ==
    IF props = <<>> THEN Fields(<<>>)
    ELSE LET pa_property ==
                 fhir_to_pyarrow_property(table, Head(props), base_obj, batch_shape, level)
             pa_sunder == sunder_to_pyarrow_property(table, Head(props), batch_shape)
             rest == PropertiesToFields(table, Tail(props), base_obj, batch_shape, level)
             AsSeq(r) == IF r.kind = "field" THEN <<r.field>> ELSE <<>>
         IN  IF pa_property.kind = "error" THEN FieldsError
             ELSE IF pa_sunder.kind = "error" THEN FieldsError
             ELSE IF rest.err THEN FieldsError
             ELSE Fields(AsSeq(pa_property) \o AsSeq(pa_sunder) \o rest.fields)

\* schemas._fhir_obj_to_pyarrow_fields; base_obj is the name of the class
fhir_obj_to_pyarrow_fields(table, base_obj, batch_shape, level) ==
    PropertiesToFields(table, table[base_obj], base_obj, batch_shape, level)

\* Every schema wide: `level = 0`
StartLevel_wide(wide) == 0

\* `level = 0 if wide else 2`
StartLevel(wide) == IF wide THEN 0 ELSE 2

\* schemas._create_pyarrow_schema_for_resource
create_pyarrow_schema_for_resource(table, resource_type, batch_shape, wide) ==
    LET type_field == Field("resourceType", Basic("string"), TRUE)
        fields == fhir_obj_to_pyarrow_fields(table, resource_type, batch_shape,
                                             StartLevel(wide))
    IN  IF fields.err THEN FieldsError ELSE Fields(<<type_field>> \o fields.fields)

\* Python's order on the strings that name top-level fields and resource
\* types here: by code point, so "_" sorts before every lower-case letter.
PlainNameOrder ==
    <<"active", "code", "contact", "contained", "extension", "gender", "id",
      "implicitRules", "language", "managingOrganization", "meta",
      "multipleBirthInteger", "onsetRange", "recordedDate", "resourceType", "stage",
      "status", "subject">>

NameOrder ==
    [i \in 1..Len(PlainNameOrder) |-> "_" \o PlainNameOrder[i]] \o PlainNameOrder

TypeOrder == <<"Condition", "Medication", "Patient">>

\* sorted(names), for names that NameOrder / TypeOrder list
Sorted(names, order) == SelectSeq(order, LAMBDA n : n \in names)

FieldNames(fields) == {fields[i].name : i \in DOMAIN fields}

FieldNamed(fields, name) == fields[CHOOSE i \in DOMAIN fields : fields[i].name = name]

\* The loop `for contained_type in sorted(contained_types)` over the types
\* still to do: `fields[name] = subschema.field(name)` for every name of the
\* type's narrow schema.  found maps the names met so far to their fields.
RECURSIVE ContainedFields(_, _, _, _)
ContainedFields(table, types, contained_shape, found) ==
    IF types = <<>> THEN [err |-> FALSE, found |-> found]
    ELSE LET subschema ==
                 create_pyarrow_schema_for_resource(table, Head(types), contained_shape, FALSE)
             names == FieldNames(subschema.fields)
         IN  IF subschema.err THEN [err |-> TRUE, found |-> found]
             ELSE ContainedFields(table, Tail(types), contained_shape,
                      [n \in DOMAIN found \cup names |->
                          IF n \in names THEN FieldNamed(subschema.fields, n) ELSE found[n]])

\* schemas._include_contained_schemas
include_contained_schemas(table, schema, contained_types, batch_shape) ==
    IF contained_types = {} THEN schema
    ELSE LET contained_shape == Get(batch_shape, "contained")
             merged == ContainedFields(table, Sorted(contained_types, TypeOrder),
                                       contained_shape, <<>>)
             names == Sorted(DOMAIN merged.found, NameOrder)
             fields == [i \in 1..Len(names) |-> merged.found[names[i]]]
             contained_index ==
                 CHOOSE i \in DOMAIN schema.fields : schema.fields[i].name = "contained"
         IN  IF merged.err THEN FieldsError
             ELSE Fields([schema.fields EXCEPT ![contained_index] =
                              Field("contained", ListOf(Struct(fields)), TRUE)])

\* `for contained_obj in row.get("contained", [])`: the truthy resourceType
\* values of the row's contained objects
ContainedTypesOf(row) ==
    IF "contained" \notin DOMAIN row.v THEN {}
    ELSE LET objs == row.v["contained"].v
         IN  {objs[i].v["resourceType"].v :
                 i \in {j \in DOMAIN objs : /\ "resourceType" \in DOMAIN objs[j].v
                                            /\ objs[j].v["resourceType"].v # ""}}

\* ---- the rows drawn for pyarrow_schema_from_rows ----
MaxContained == 2        \* most objects in one row's `contained`
MaxRows == 2             \* most rows in a batch of several rows

\* Keys that hold a list in FHIR JSON
ListKeys == {"coding", "stage", "assessment", "extension", "contact", "contained"}

\* The JSON value in which exactly the given key paths occur
RECURSIVE ItemOfPaths(_)
ItemOfPaths(paths) ==
    LET longer == {p \in paths : p # <<>>}
        keys == {Head(p) : p \in longer}
        Sub(k) == ItemOfPaths({Tail(p) : p \in {q \in longer : Head(q) = k}})
    IN  IF keys = {} THEN Scalar
        ELSE Dict([k \in keys |-> IF k \in ListKeys THEN List(<<Sub(k)>>) ELSE Sub(k)])

SamplePaths ==
    {<<"code", "coding", "version">>,
     <<"code", "extension", "url">>,
     <<"stage", "type", "text">>,
     <<"stage", "assessment", "display">>,
     <<"onsetRange", "low", "value">>,
     <<"onsetRange", "high">>,
     <<"subject", "identifier", "value">>,
     <<"contact", "period", "start">>,
     <<"_recordedDate", "id">>,
     <<"_invalid", "id">>,
     <<"invalid_field">>}

\* One object of a `contained` list
ContainedObject(resource_type, paths) ==
    LET item == ItemOfPaths(paths)
        keys == IF item.t = "dict" THEN DOMAIN item.v ELSE {}
    IN  IF resource_type = "" THEN Dict([k \in keys |-> item.v[k]])
        ELSE Dict([k \in keys \cup {"resourceType"} |->
                      IF k = "resourceType" THEN Str(resource_type) ELSE item.v[k]])

ContainedObjects ==
    {ContainedObject("Medication", {<<"code", "text">>}),
     ContainedObject("Patient", {<<"gender">>, <<"extraField">>}),
     ContainedObject("", {<<"unknownField">>, <<"gender">>}),
     ContainedObject("Medication", {<<"status">>, <<"meta">>}),
     ContainedObject("Patient", {<<"id">>, <<"_gender", "id">>})}

\* A row with the given key paths and the given `contained` list
RowOf(paths, contained) ==
    LET item == ItemOfPaths(paths)
        keys == IF item.t = "dict" THEN DOMAIN item.v ELSE {}
    IN  IF contained = <<>> THEN Dict([k \in keys |-> item.v[k]])
        ELSE Dict([k \in keys \cup {"contained"} |->
                      IF k = "contained" THEN List(contained) ELSE item.v[k]])

SingleRows ==
    {RowOf(paths, <<>>) : paths \in SUBSET SamplePaths}
    \cup {RowOf({}, c) : c \in SeqsUpTo(ContainedObjects, MaxContained)}

SmallRows ==
    {RowOf({<<"stage", "type", "text">>}, <<>>),
     RowOf({<<"onsetRange", "low", "value">>}, <<>>),
     RowOf({}, <<ContainedObject("Medication", {<<"code", "text">>})>>),
     RowOf({<<"code">>}, <<ContainedObject("", {<<"gender">>})>>)}

\* Rows with primitive extensions: "_p" next to (or instead of) a primitive p
SunderRows ==
    {RowOf({<<"recordedDate">>, <<"_recordedDate", "id">>,
            <<"_recordedDate", "extension", "url">>}, <<>>),
     RowOf({<<"_recordedDate", "extension", "valueString">>}, <<>>),
     RowOf({<<"_recordedDate", "extension">>}, <<>>),
     RowOf({<<"_recordedDate", "extension", "unknownField">>}, <<>>),
     RowOf({<<"_recordedDate", "unknownField">>}, <<>>),
     RowOf({<<"_recordedDate">>}, <<>>),
     RowOf({<<"_recordedDate", "_id", "id">>}, <<>>),
     RowOf({<<"code", "_text", "extension", "url">>}, <<>>),
     RowOf({<<"stage", "_id", "id">>, <<"stage", "_summary", "id">>}, <<>>),
     RowOf({<<"contact", "name", "given">>, <<"contact", "name", "_given", "id">>,
            <<"contact", "name", "_family", "extension", "url">>}, <<>>),
     RowOf({<<"contact", "_name", "id">>, <<"contact", "_gender", "extension">>}, <<>>)}

Batches ==
    {<<r>> : r \in SingleRows \cup SunderRows} \cup SeqsUpTo(SmallRows, MaxRows)

ResourceTypes == {"Condition", "Medication", "Patient"}

\* Where a property table may declare a type the builder does not know
UnexpectedSpots ==
    {<<>>, <<"Condition", "recordedDate">>, <<"Coding", "version">>,
     <<"Quantity", "value">>, <<"Identifier", "value">>}

\* The body of `for row in rows`
ExamineRow ==
    /\ s_pc = "row"
    /\ s_next <= Len(s_rows)
    /\ s_batch_shape' = get_shape_of_dicts(s_batch_shape, s_rows[s_next])
    /\ s_contained_types' = s_contained_types \cup ContainedTypesOf(s_rows[s_next])
    /\ s_next' = s_next + 1
    /\ UNCHANGED <<s_pc, s_resource_type, s_spot, s_rows, s_schema>>
    /\ UNCHANGED rest_s

\* After the loop: _create_pyarrow_schema_for_resource, then
\* _include_contained_schemas
CreateSchema ==
    /\ s_pc = "row"
    /\ s_next > Len(s_rows)
    /\ LET table == WithUnexpectedType(FhirTable, s_spot)
           schema == create_pyarrow_schema_for_resource(table, s_resource_type,
                                                        s_batch_shape, TRUE)
       IN  s_schema' = IF schema.err THEN FieldsError
                       ELSE include_contained_schemas(table, schema, s_contained_types,
                                                      s_batch_shape)
    /\ s_pc' = "done"
    /\ UNCHANGED <<s_resource_type, s_spot, s_rows, s_next, s_batch_shape,
                   s_contained_types>>
    /\ UNCHANGED rest_s

(***************************************************************************)
(* ml_json: bytes, lines and json.loads                                    *)
(***************************************************************************)
\* A file's content is a sequence of bytes.  "LF" and "CR" are the line
\* ends, "1" and "2" digits, "{" and "}" braces; "P", "C" and "L" stand for
\* the members "resourceType":"Patient", "resourceType":"Condition" and
\* "resourceType":["x"]; "x" is a letter and "U" a byte that is not UTF-8.
Digits == {"1", "2"}
Whitespace == {"CR", "LF"}
Members == {"P", "C", "L"}

\* What _open finds at a path: a file that cannot be opened, or its bytes
\* (after decompression, for a .gz path)
NoFile == [readable |-> FALSE, bytes |-> <<>>]
File(bytes) == [readable |-> TRUE, bytes |-> bytes]

\* bytes.rstrip(b"\r\n")
RECURSIVE rstrip(_)
rstrip(line) ==
    IF line # <<>> /\ line[Len(line)] \in Whitespace
    THEN rstrip(SubSeq(line, 1, Len(line) - 1))
    ELSE line

\* The whitespace json.loads allows before the value
RECURSIVE lstrip(_)
lstrip(line) ==
    IF line # <<>> /\ line[1] \in Whitespace THEN lstrip(Tail(line)) ELSE line

\* The values json.loads gives here: a number, or an object of which only
\* the resourceType member (None if it has none) matters
Number(digits) == [t |-> "number", v |-> digits]
Object(resource_type) == [t |-> "object", v |-> resource_type]

\* The resourceType a member spells; a list is not hashable
ListValue == "['x']"
MemberType(member) ==
    IF member = "P" THEN "Patient" ELSE IF member = "C" THEN "Condition" ELSE ListValue

Decoded(value) == [kind |-> "value", value |-> value]
JSONDecodeError == [kind |-> "JSONDecodeError", value |-> Number(<<>>)]
UnicodeDecodeError == [kind |-> "UnicodeDecodeError", value |-> Number(<<>>)]

\* json.loads(bytes): the bytes are decoded as UTF-8 first, which raises
\* UnicodeDecodeError (a ValueError, not a JSONDecodeError); then one JSON
\* value is parsed, with whitespace allowed around it and between tokens.
json_loads(s) ==
    LET text == lstrip(rstrip(s))
        inner == SelectSeq(SubSeq(text, 2, Len(text) - 1), LAMBDA b : b \notin Whitespace)
    IN  IF \E i \in DOMAIN s : s[i] = "U" THEN UnicodeDecodeError
        ELSE IF text = <<>> THEN JSONDecodeError
        ELSE IF \A i \in DOMAIN text : text[i] \in Digits THEN Decoded(Number(text))
        ELSE IF /\ Len(text) >= 2
                /\ text[1] = "{"
                /\ text[Len(text)] = "}"
                /\ inner = <<>> \/ (Len(inner) = 1 /\ inner[1] \in Members)
        THEN Decoded(Object(IF inner = <<>> THEN None ELSE MemberType(inner[1])))
        ELSE JSONDecodeError

\* The next line a binary file object gives at position pos: up to and with
\* the next LF, or up to the end of the file
LineAt(bytes, pos) ==
    LET rest == SubSeq(bytes, pos + 1, Len(bytes))
        ends == {i \in DOMAIN rest : rest[i] = "LF"}
    IN  IF ends = {} THEN rest
        ELSE SubSeq(rest, 1, CHOOSE i \in ends : \A j \in ends : i <= j)

(***************************************************************************)
(* ml_json.read_multiline_json_with_details                                *)
(***************************************************************************)
\* One yielded dict
Item(json, line_num, byte_offset) ==
    [json |-> json, line_num |-> line_num, byte_offset |-> byte_offset]

\* The generator's state
Reader(pc, pos, line_num, byte_total, yielded, warnings, errors) ==
    [pc |-> pc, pos |-> pos, line_num |-> line_num, byte_total |-> byte_total,
     yielded |-> yielded, warnings |-> warnings, errors |-> errors]

\* `with _open(path) as f: if offset: f.seek(offset)`; a file that cannot be
\* opened lands in `except Exception`
open_and_seek(file, offset) ==
    IF ~file.readable THEN Reader("done", 0, 0, 0, <<>>, <<>>, 1)
    ELSE Reader("lines", offset, 0, 0, <<>>, <<>>, 0)

\* The bytes of a line counted without its line end.
LineBytes_stripped(line) == Len(rstrip(line))

\* `len(line)`
LineBytes(line) == Len(line)

\* One turn of `for line_num, line in enumerate(f)`
next_line(file, r) ==
    LET line == LineAt(file.bytes, r.pos)
        byte_num == r.byte_total
        after == [r EXCEPT !.pos = @ + Len(line),
                           !.line_num = @ + 1,
                           !.byte_total = @ + LineBytes(line)]
        parsed == json_loads(line)
    IN  IF rstrip(line) = <<>> THEN after
        ELSE IF parsed.kind = "value"
        THEN [after EXCEPT !.yielded = Append(@, Item(parsed.value, r.line_num, byte_num))]
        ELSE IF parsed.kind = "JSONDecodeError"
        THEN [after EXCEPT !.warnings = Append(@, r.line_num + 1)]
        ELSE [after EXCEPT !.pc = "done", !.errors = @ + 1]

\* The loop to its end
RECURSIVE ReadLines(_, _)
ReadLines(file, r) ==
    IF r.pc = "done" THEN r
    ELSE IF r.pos >= Len(file.bytes) THEN [r EXCEPT !.pc = "done"]
    ELSE ReadLines(file, next_line(file, r))

\* ml_json.read_multiline_json_with_details, consumed to the end
read_multiline_json_with_details(file, offset) ==
    ReadLines(file, open_and_seek(file, offset))

\* ml_json.read_multiline_json: the "json" of every item
read_multiline_json(file) ==
    LET items == read_multiline_json_with_details(file, 0).yielded
    IN  [i \in DOMAIN items |-> items[i].json]

\* ---- the files drawn ----
MaxLines == 3            \* most lines in a file

LineBodies ==
    {<<"{", "P", "}">>, <<"1", "2">>, <<>>, <<"CR">>, <<"x">>, <<"U">>, <<"{", "C", "}", "CR">>}

RECURSIVE Joined(_)
Joined(lines) ==
    IF lines = <<>> THEN <<>> ELSE Head(lines) \o <<"LF">> \o Joined(Tail(lines))

\* Files of up to MaxLines lines; the last line may lack its LF
FileContents ==
    LET whole == {Joined(lines) : lines \in SeqsUpTo(LineBodies, MaxLines)}
    IN  whole \cup {SubSeq(b, 1, Len(b) - 1) : b \in whole \ {<<>>}}

Files == {NoFile} \cup {File(b) : b \in FileContents}

ReaderNow ==
    Reader(r_pc, r_pos, r_line_num, r_byte_total, r_yielded, r_warnings, r_errors)

SetReader(r) ==
    /\ r_pc' = r.pc
    /\ r_pos' = r.pos
    /\ r_line_num' = r.line_num
    /\ r_byte_total' = r.byte_total
    /\ r_yielded' = r.yielded
    /\ r_warnings' = r.warnings
    /\ r_errors' = r.errors

\* The generator is started: the file is opened and sought
OpenFile ==
    /\ r_pc = "open"
    /\ SetReader(open_and_seek(r_file, r_offset))
    /\ UNCHANGED <<r_file, r_offset>>
    /\ UNCHANGED rest_r

\* The file has another line
NextLine ==
    /\ r_pc = "lines"
    /\ r_pos < Len(r_file.bytes)
    /\ SetReader(next_line(r_file, ReaderNow))
    /\ UNCHANGED <<r_file, r_offset>>
    /\ UNCHANGED rest_r

\* The file has no more lines: the loop and the generator end
EndOfFile ==
    /\ r_pc = "lines"
    /\ r_pos >= Len(r_file.bytes)
    /\ r_pc' = "done"
    /\ UNCHANGED <<r_file, r_offset, r_pos, r_line_num, r_byte_total, r_yielded,
                   r_warnings, r_errors>>
    /\ UNCHANGED rest_r

(***************************************************************************)
(* ml_json.list_multiline_json_in_dir                                      *)
(***************************************************************************)
\* pathlib.Path(path).suffixes of the names used here
Suffixes(name) ==
    IF name = "A.NDJSON" THEN <<".NDJSON">>
    ELSE IF name = "b.jsonl.gz" THEN <<".jsonl", ".gz">>
    ELSE IF name = "c.ndjson" THEN <<".ndjson">>
    ELSE IF name = "d.txt.gz" THEN <<".txt", ".gz">>
    ELSE IF name = "e.ndjson" THEN <<".ndjson">>
    ELSE <<>>

\* str.casefold
casefold(suffix) == IF suffix = ".NDJSON" THEN ".ndjson" ELSE suffix

good_endings == {".jsonl", ".ndjson"}
good_compressions == {".gz"}

\* `valid_filename`
valid_filename(name) ==
    LET suffixes == [i \in DOMAIN Suffixes(name) |-> casefold(Suffixes(name)[i])]
        n == Len(suffixes)
    IN  \/ n > 0 /\ suffixes[n] \in good_endings
        \/ n > 1 /\ suffixes[n - 1] \in good_endings /\ suffixes[n] \in good_compressions

\* Python's order on the paths used here (by code point)
PathOrder == <<"A.NDJSON", "b.jsonl.gz", "c.ndjson", "d.txt.gz", "e.ndjson">>

\* The `resource` argument: None, one string, or an iterable of strings and
\* None.  v holds the string or the members.
NoFilter == [kind |-> "None", v |-> {}]
SingleType(type) == [kind |-> "str", v |-> {type}]
TypesOf(types) == [kind |-> "iterable", v |-> types]

\* "Coalesce resource to None or a set of strings"
Coalesced(resource) ==
    IF resource.kind = "str" THEN TypesOf(resource.v)
    ELSE IF resource.kind # "None" THEN TypesOf(resource.v)
    ELSE NoFilter

\* A folder: whether it exists, and its entries by name, each a directory
\* or a regular file
NoFolder == [exists |-> FALSE, entries |-> <<>>]
Folder(entries) == [exists |-> TRUE, entries |-> entries]
DirEntry == [kind |-> "dir", file |-> NoFile]
FileEntry(file) == [kind |-> "file", file |-> file]

\* ml_json._list_local_files, not recursive: the regular files of the folder
list_local_files(folder) ==
    IF ~folder.exists THEN {}
    ELSE {name \in DOMAIN folder.entries : folder.entries[name].kind = "file"}

\* ml_json._read_first_line
OSError == [kind |-> "OSError", line |-> <<>>]
read_first_line(file) ==
    IF ~file.readable THEN OSError
    ELSE [kind |-> "line", line |-> rstrip(LineAt(file.bytes, 0))]

\* What _get_resource_type does with one child
Left == [kind |-> "left out", type |-> None]
Warned == [kind |-> "warned", type |-> None]
Found(type) == [kind |-> "found", type |-> type]
TypeError == [kind |-> "TypeError", type |-> None]

\* ml_json._get_resource_type
get_resource_type(name, file, target_resources) ==
    LET first == read_first_line(file)
        parsed == json_loads(first.line)
        resource_type == IF parsed.value.t = "object" THEN parsed.value.v ELSE None
    IN  IF ~valid_filename(name) THEN Left
        ELSE IF first.kind = "OSError" THEN Warned
        ELSE IF first.line = <<>> THEN Left
        ELSE IF parsed.kind # "value" THEN Warned
        ELSE IF target_resources.kind = "None" THEN Found(resource_type)
        ELSE IF resource_type = ListValue THEN TypeError
        ELSE IF resource_type \in target_resources.v THEN Found(resource_type)
        ELSE Left

\* ---- the folders and filters drawn ----
ListedFiles ==
    {NoFile,
     File(<<>>),
     File(<<"{", "P", "}", "LF">>),
     File(<<"{", "C", "}", "CR", "LF", "{", "P", "}", "LF">>),
     File(<<"{", "}", "LF">>),
     File(<<"1", "2", "LF">>),
     File(<<"x">>),
     File(<<"LF", "{", "P", "}", "LF">>),
     File(<<"{", "L", "}", "LF">>)}

OpenNames == {"A.NDJSON", "b.jsonl.gz", "c.ndjson"}

\* Up to three well-named files of any content, with or without a file
\* named d.txt.gz and a directory named e.ndjson next to them
Folders ==
    {NoFolder} \cup
    {Folder([name \in DOMAIN files \cup extra |->
                IF name \in DOMAIN files THEN FileEntry(files[name])
                ELSE IF name = "e.ndjson" THEN DirEntry
                ELSE FileEntry(File(<<"{", "P", "}", "LF">>))]) :
        files \in UNION {[S -> ListedFiles] : S \in SUBSET OpenNames},
        extra \in {{}, {"d.txt.gz", "e.ndjson"}}}

Filters ==
    {NoFilter, SingleType("Patient"), TypesOf({}), TypesOf({"Condition", "Patient"}),
     TypesOf({"Condition", None}), TypesOf({"Observation"})}

\* The children are listed and sorted, the filter coalesced
ListChildren ==
    /\ l_pc = "list"
    /\ l_children' = Sorted(list_local_files(l_dir), PathOrder)
    /\ l_target' = Coalesced(l_resource)
    /\ l_pc' = "child"
    /\ UNCHANGED <<l_dir, l_resource, l_next, l_results, l_warnings>>
    /\ UNCHANGED rest_l

\* One turn of `for child in sorted(children)`
ExamineChild ==
    /\ l_pc = "child"
    /\ l_next <= Len(l_children)
    /\ LET child == l_children[l_next]
           got == get_resource_type(child, l_dir.entries[child].file, l_target)
       IN  /\ l_results' = IF got.kind = "found"
                           THEN Append(l_results, [path |-> child, type |-> got.type])
                           ELSE l_results
           /\ l_warnings' = IF got.kind = "warned" THEN Append(l_warnings, child)
                            ELSE l_warnings
           /\ l_pc' = IF got.kind = "TypeError" THEN "raised" ELSE "child"
    /\ l_next' = l_next + 1
    /\ UNCHANGED <<l_dir, l_resource, l_target, l_children>>
    /\ UNCHANGED rest_l

\* `return results`
ReturnResults ==
    /\ l_pc = "child"
    /\ l_next > Len(l_children)
    /\ l_pc' = "done"
    /\ UNCHANGED <<l_dir, l_resource, l_target, l_children, l_next, l_results, l_warnings>>
    /\ UNCHANGED rest_l

\* The loop of list_multiline_json_in_dir from child k on; `acc` holds the
\* results and the warnings so far
RECURSIVE ListFrom(_, _, _, _, _)
ListFrom(folder, children, target, k, acc) ==
    IF k > Len(children) THEN acc
    ELSE LET child == children[k]
             got == get_resource_type(child, folder.entries[child].file, target)
         IN  IF got.kind = "TypeError" THEN [acc EXCEPT !.raised = TRUE]
             ELSE ListFrom(folder, children, target, k + 1,
                           [acc EXCEPT
                               !.results = IF got.kind = "found"
                                           THEN Append(@, [path |-> child, type |-> got.type])
                                           ELSE @,
                               !.warnings = IF got.kind = "warned" THEN Append(@, child)
                                            ELSE @])

\* ml_json.list_multiline_json_in_dir as one call
list_multiline_json_in_dir(folder, resource) ==
    ListFrom(folder, Sorted(list_local_files(folder), PathOrder), Coalesced(resource), 1,
             [raised |-> FALSE, results |-> <<>>, warnings |-> <<>>])

(***************************************************************************)
(* ml_json.read_multiline_json_from_dir                                    *)
(***************************************************************************)
\* ---- the folders drawn ----
DirFiles ==
    {NoFile,
     File(<<>>),
     File(<<"{", "P", "}", "LF", "{", "P", "}", "LF">>),
     File(<<"{", "C", "}", "CR", "LF", "LF", "{", "C", "}">>),
     File(<<"{", "P", "}", "LF", "U", "LF", "{", "P", "}", "LF">>),
     File(<<"{", "P", "}", "LF", "x", "LF", "{", "P", "}", "LF">>),
     File(<<"1", "2", "LF", "{", "P", "}", "LF">>),
     File(<<"x", "LF", "{", "P", "}", "LF">>)}

DirFolders ==
    {NoFolder} \cup
    {Folder([name \in DOMAIN files \cup extra |->
                IF name \in DOMAIN files THEN FileEntry(files[name])
                ELSE IF name = "e.ndjson" THEN DirEntry
                ELSE FileEntry(File(<<"{", "P", "}", "LF">>))]) :
        files \in UNION {[S -> DirFiles] : S \in SUBSET OpenNames},
        extra \in {{}, {"d.txt.gz", "e.ndjson"}}}

NoReader == Reader("idle", 0, 0, 0, <<>>, <<>>, 0)

\* One yielded value, with the file and the line it was read from
Row(json, path, line_num) == [json |-> json, path |-> path, line_num |-> line_num]

\* `list_multiline_json_in_dir(path, resource, ...)`: the whole listing is
\* made before the first file is read
DirList ==
    /\ d_pc = "list"
    /\ LET listing == list_multiline_json_in_dir(d_dir, d_resource)
       IN  /\ d_listing' = IF listing.raised THEN <<>> ELSE listing.results
           /\ d_pc' = IF listing.raised THEN "raised" ELSE "file"
    /\ UNCHANGED <<d_dir, d_resource, d_next, d_reader, d_rows>>
    /\ UNCHANGED rest_d

\* `for filename in ...: yield from read_multiline_json(filename)` starts on
\* the next listed file
DirOpen ==
    /\ d_pc = "file"
    /\ d_next <= Len(d_listing)
    /\ d_reader' = open_and_seek(d_dir.entries[d_listing[d_next].path].file, 0)
    /\ d_pc' = "lines"
    /\ UNCHANGED <<d_dir, d_resource, d_listing, d_next, d_rows>>
    /\ UNCHANGED rest_d

\* The file being read has another line
DirLine ==
    /\ d_pc = "lines"
    /\ d_reader.pc = "lines"
    /\ LET path == d_listing[d_next].path
           file == d_dir.entries[path].file
           after == next_line(file, d_reader)
       IN  /\ d_reader.pos < Len(file.bytes)
           /\ d_reader' = after
           /\ d_rows' = IF Len(after.yielded) > Len(d_reader.yielded)
                        THEN Append(d_rows, Row(after.yielded[Len(after.yielded)].json,
                                                path, d_reader.line_num))
                        ELSE d_rows
    /\ UNCHANGED <<d_pc, d_dir, d_resource, d_listing, d_next>>
    /\ UNCHANGED rest_d

\* The generator of the file being read ends: the loop goes on
DirFileEnd ==
    /\ d_pc = "lines"
    /\ \/ d_reader.pc = "done"
       \/ d_reader.pos >= Len(d_dir.entries[d_listing[d_next].path].file.bytes)
    /\ d_next' = d_next + 1
    /\ d_pc' = "file"
    /\ UNCHANGED <<d_dir, d_resource, d_listing, d_reader, d_rows>>
    /\ UNCHANGED rest_d

\* No listed file is left
DirEnd ==
    /\ d_pc = "file"
    /\ d_next > Len(d_listing)
    /\ d_pc' = "done"
    /\ UNCHANGED <<d_dir, d_resource, d_listing, d_next, d_reader, d_rows>>
    /\ UNCHANGED rest_d

(***************************************************************************)
(* ml_json._list_local_files on a directory tree with symbolic links        *)
(***************************************************************************)
\* The tree: /root (the folder listed) with a.ndjson and the directory sub,
\* sub with b.ndjson, and next to /root the directory /ext with c.ndjson.
\* Up to three symbolic links sit in it: /root/x, /root/y and /root/sub/up.
Dirs == {"/root", "/root/sub", "/ext"}
RegularFiles == {"/root/a.ndjson", "/root/sub/b.ndjson", "/ext/c.ndjson"}
LinkNames == {"x", "y", "up"}
NoLink == "none"
Missing == "missing"     \* what a path that leads nowhere resolves to
Loop == "loop"           \* what a path through a cycle of links resolves to

\* What a link may point to: a directory, a regular file, a link, nothing
LinkTargets ==
    Dirs \cup {"/root/a.ndjson", "/ext/c.ndjson"} \cup LinkNames \cup {Missing}

\* The directory a link sits in
HomeOf(link) == IF link = "up" THEN "/root/sub" ELSE "/root"

\* The entries of a directory that are not links, and what each is
RealEntries(dir) ==
    IF dir = "/root" THEN {"a.ndjson", "sub"}
    ELSE IF dir = "/root/sub" THEN {"b.ndjson"}
    ELSE IF dir = "/ext" THEN {"c.ndjson"}
    ELSE {}

Child(name) ==
    IF name = "a.ndjson" THEN "/root/a.ndjson"
    ELSE IF name = "sub" THEN "/root/sub"
    ELSE IF name = "b.ndjson" THEN "/root/sub/b.ndjson"
    ELSE "/ext/c.ndjson"

LinksIn(links, dir) == {n \in LinkNames : links[n] # NoLink /\ HomeOf(n) = dir}

\* A link followed to what is not a link: the node reached and the links
\* traversed on the way
RECURSIVE Chase(_, _, _)
Chase(links, link, seen) ==
    IF link \in seen THEN [node |-> Loop, hops |-> Cardinality(seen)]
    ELSE IF links[link] = NoLink THEN [node |-> Missing, hops |-> Cardinality(seen)]
    ELSE IF links[link] \in LinkNames THEN Chase(links, links[link], seen \cup {link})
    ELSE [node |-> links[link], hops |-> Cardinality(seen) + 1]

\* A path below `node`, name after name, every link followed
RECURSIVE Lookup(_, _, _, _)
Lookup(links, node, hops, path) ==
    IF path = <<>> THEN [node |-> node, hops |-> hops]
    ELSE IF node \notin Dirs THEN [node |-> IF node = Loop THEN Loop ELSE Missing, hops |-> hops]
    ELSE IF Head(path) \in RealEntries(node)
    THEN Lookup(links, Child(Head(path)), hops, Tail(path))
    ELSE IF Head(path) \in LinksIn(links, node)
    THEN LET end == Chase(links, Head(path), {})
         IN  Lookup(links, end.node, hops + end.hops, Tail(path))
    ELSE [node |-> Missing, hops |-> hops]

\* The kernel gives up (ELOOP) on a path that takes it through more than
\* this many symbolic links (40 on Linux)
MaxSymlinks == 2

\* os.stat(path): the node, or Missing for a path the kernel cannot resolve
stat(links, path) ==
    LET end == Lookup(links, "/root", 0, path)
    IN  IF end.node = Loop \/ end.hops > MaxSymlinks THEN Missing ELSE end.node

\* DirEntry.is_dir(), following links; False on an OSError
is_dir(links, path) == stat(links, path) \in Dirs

\* os.scandir(path): the names in the directory; os.walk ignores its error
scandir(links, path) ==
    LET dir == stat(links, path)
    IN  IF dir \in Dirs THEN RealEntries(dir) \cup LinksIn(links, dir) ELSE {}

\* os.path.realpath(path): every link resolved by Python itself, as far as
\* it goes; Loop stands for a path that still ends in a cycle of links
realpath(links, path) == Lookup(links, "/root", 0, path).node

\* The order in which os.walk takes the subdirectories
WalkOrder == <<"a.ndjson", "b.ndjson", "c.ndjson", "sub", "up", "x", "y">>

\* `if not path.exists(): return set()`, else os.walk starts at `path`
WalkStart ==
    /\ w_pc = "start"
    /\ w_pc' = IF w_exists THEN "walk" ELSE "done"
    /\ w_stack' = IF w_exists THEN << <<>> >> ELSE <<>>
    /\ UNCHANGED <<w_exists, w_links, w_recursive, w_loop_raises, w_results, w_scans>>
    /\ UNCHANGED rest_w

\* os.walk(path, followlinks=True) yields the next directory and the loop
\* body runs on it: every file name is resolved and kept if it is a regular
\* file; os.walk then goes into every subdirectory, linked ones included,
\* and keeps no track of where it has been
WalkDir ==
    /\ w_pc = "walk"
    /\ w_stack # <<>>
    /\ LET dirpath == Head(w_stack)
           names == scandir(w_links, dirpath)
           dirnames == {n \in names : is_dir(w_links, Append(dirpath, n))}
           filenames == IF dirpath # <<>> /\ ~w_recursive THEN {} ELSE names \ dirnames
           resolved == {realpath(w_links, Append(dirpath, n)) : n \in filenames}
           below == Sorted(dirnames, WalkOrder)
       IN  IF Loop \in resolved /\ w_loop_raises
           THEN /\ w_pc' = "raised"
                /\ UNCHANGED <<w_stack, w_results>>
           ELSE /\ w_pc' = "walk"
                /\ w_results' = w_results \cup (resolved \cap RegularFiles)
                /\ w_stack' = [i \in DOMAIN below |-> Append(dirpath, below[i])]
                              \o Tail(w_stack)
    /\ w_scans' = w_scans + 1
    /\ UNCHANGED <<w_exists, w_links, w_recursive, w_loop_raises>>
    /\ UNCHANGED rest_w

\* os.walk is exhausted: `return results`
WalkEnd ==
    /\ w_pc = "walk"
    /\ w_stack = <<>>
    /\ w_pc' = "done"
    /\ UNCHANGED <<w_exists, w_links, w_recursive, w_loop_raises, w_stack, w_results,
                   w_scans>>
    /\ UNCHANGED rest_w

(***************************************************************************)
(* Idle values of the variable groups                                      *)
(***************************************************************************)
NoCalls == [request |-> 0, error |-> 0, retry |-> 0, auth |-> 0]

p_Idle ==
    /\ p_pc = "idle"
    /\ p_header = NoHeader
    /\ p_default = 0
    /\ p_now = 0
    /\ p_result = Returned(0)

o_Idle ==
    /\ o_pc = "idle"
    /\ o_reply = TransportError
    /\ o_result = Pending

h_Idle ==
    /\ h_pc = "idle"
    /\ h_plan = <<>>
    /\ h_slot = 1
    /\ h_auth_callback = FALSE
    /\ h_callbacks = [request |-> FALSE, error |-> FALSE, retry |-> FALSE]
    /\ h_headers = 0
    /\ h_error = Pending
    /\ h_log = <<>>
    /\ h_sleeps = <<>>
    /\ h_calls = NoCalls
    /\ h_plain = TRUE
    /\ h_evaluated = <<>>
    /\ h_result = Pending

c_Idle ==
    /\ c_pc = "idle"
    /\ c_server_root = FALSE
    /\ c_client_id = FALSE
    /\ c_session = "None"
    /\ c_open = 0
    /\ c_server_type = "UNKNOWN"
    /\ c_capabilities = EmptyStatement
    /\ c_probe = NoProbe
    /\ c_raised = None
    /\ c_entries = 0
    /\ c_requests = <<>>

m_Idle ==
    /\ m_pc = "idle"
    /\ m_rows = <<>>
    /\ m_next = 1
    /\ m_shape = EmptyShape

s_Idle ==
    /\ s_pc = "idle"
    /\ s_resource_type = ""
    /\ s_spot = <<>>
    /\ s_rows = <<>>
    /\ s_next = 1
    /\ s_batch_shape = EmptyShape
    /\ s_contained_types = {}
    /\ s_schema = Fields(<<>>)

r_Idle ==
    /\ r_pc = "idle"
    /\ r_file = NoFile
    /\ r_offset = 0
    /\ r_pos = 0
    /\ r_line_num = 0
    /\ r_byte_total = 0
    /\ r_yielded = <<>>
    /\ r_warnings = <<>>
    /\ r_errors = 0

l_Idle ==
    /\ l_pc = "idle"
    /\ l_dir = NoFolder
    /\ l_resource = NoFilter
    /\ l_target = NoFilter
    /\ l_children = <<>>
    /\ l_next = 1
    /\ l_results = <<>>
    /\ l_warnings = <<>>

d_Idle ==
    /\ d_pc = "idle"
    /\ d_dir = NoFolder
    /\ d_resource = NoFilter
    /\ d_listing = <<>>
    /\ d_next = 1
    /\ d_reader = NoReader
    /\ d_rows = <<>>

w_Idle ==
    /\ w_pc = "idle"
    /\ w_exists = FALSE
    /\ w_links = [n \in LinkNames |-> NoLink]
    /\ w_recursive = FALSE
    /\ w_loop_raises = FALSE
    /\ w_stack = <<>>
    /\ w_results = {}
    /\ w_scans = 0

\* Every group but `group` sits at its idle value.
IdleExcept(group) ==
    /\ group = "p" \/ p_Idle
    /\ group = "o" \/ o_Idle
    /\ group = "h" \/ h_Idle
    /\ group = "c" \/ c_Idle
    /\ group = "m" \/ m_Idle
    /\ group = "s" \/ s_Idle
    /\ group = "r" \/ r_Idle
    /\ group = "l" \/ l_Idle
    /\ group = "d" \/ d_Idle
    /\ group = "w" \/ w_Idle

(***************************************************************************)
(* SpecParse: one call of parse_retry_after on drawn inputs                *)
(***************************************************************************)
InitParse ==
    /\ p_pc = "call"
    /\ p_header \in ParseHeaders
    /\ p_default \in (-MaxDefault)..MaxDefault
    /\ p_now \in 0..(MaxClock * TicksPerSecond)
    /\ p_result = Returned(0)
    /\ IdleExcept("p")

ParseCall ==
    /\ p_pc = "call"
    /\ p_result' = parse_retry_after(p_header, p_default, p_now)
    /\ p_pc' = "done"
    /\ UNCHANGED <<p_header, p_default, p_now>>
    /\ UNCHANGED rest_p

NextParse == ParseCall

SpecParse == InitParse /\ [][NextParse]_vars

(***************************************************************************)
(* SpecOnce: one call of _request_once against a drawn reply               *)
(***************************************************************************)
InitOnce ==
    /\ o_pc = "call"
    /\ o_reply \in OnceReplies
    /\ o_result = Pending
    /\ IdleExcept("o")

OnceCall ==
    /\ o_pc = "call"
    /\ o_result' = request_once(o_reply)
    /\ o_pc' = "done"
    /\ UNCHANGED o_reply
    /\ UNCHANGED rest_o

NextOnce == OnceCall

SpecOnce == InitOnce /\ [][NextOnce]_vars

(***************************************************************************)
(* SpecHttp: one call of http_request against a server that picks each     *)
(* reply freely                                                            *)
(***************************************************************************)
InitHttp ==
    /\ h_pc = "request"
    /\ h_plan \in HttpPlans
    /\ h_slot = 1
    /\ h_auth_callback \in BOOLEAN
    /\ h_callbacks \in CallbackChoices
    /\ h_headers = 0
    /\ h_error = Pending
    /\ h_log = <<>>
    /\ h_sleeps = <<>>
    /\ h_calls = NoCalls
    /\ h_plain = TRUE
    /\ h_evaluated = <<>>
    /\ h_result = Pending
    /\ IdleExcept("h")

NextHttp == Attempt \/ Reauth \/ Evaluate

SpecHttp == InitHttp /\ [][NextHttp]_vars

(***************************************************************************)
(* SpecClient: one FhirClient, its caller and its server                   *)
(***************************************************************************)
InitClient ==
    /\ c_pc = "unopened"
    /\ c_server_root \in BOOLEAN
    /\ c_client_id \in BOOLEAN
    /\ c_session = "None"
    /\ c_open = 0
    /\ c_server_type = "UNKNOWN"
    /\ c_capabilities = EmptyStatement
    /\ c_probe = NoProbe
    /\ c_raised = None
    /\ c_entries = 0
    /\ c_requests = <<>>
    /\ IdleExcept("c")

NextClient == Enter \/ ReadCapabilities \/ Authorize \/ Exit \/ Request

SpecClient == InitClient /\ [][NextClient]_vars

(***************************************************************************)
(* SpecShape: the row loop over a batch [A, B, A] of free-form rows         *)
(***************************************************************************)
InitShape ==
    /\ m_pc = "row"
    /\ m_rows \in {<<a, b, a>> : a \in FreeRows, b \in FreeRows}
    /\ m_next = 1
    /\ m_shape = EmptyShape
    /\ IdleExcept("m")

NextShape == MergeRow

SpecShape == InitShape /\ [][NextShape]_vars

(***************************************************************************)
(* SpecSchema: one call of pyarrow_schema_from_rows                         *)
(***************************************************************************)
InitSchema ==
    /\ s_pc = "row"
    /\ s_resource_type \in ResourceTypes
    /\ s_spot \in UnexpectedSpots
    /\ s_rows \in Batches
    /\ s_next = 1
    /\ s_batch_shape = EmptyShape
    /\ s_contained_types = {}
    /\ s_schema = Fields(<<>>)
    /\ IdleExcept("s")

NextSchema == ExamineRow \/ CreateSchema

SpecSchema == InitSchema /\ [][NextSchema]_vars

(***************************************************************************)
(* SpecRead: one read_multiline_json_with_details generator, consumed to    *)
(* its end                                                                  *)
(***************************************************************************)
InitRead ==
    /\ r_pc = "open"
    /\ r_file \in Files
    /\ r_offset \in 0..(Len(r_file.bytes) + 1)
    /\ r_pos = 0
    /\ r_line_num = 0
    /\ r_byte_total = 0
    /\ r_yielded = <<>>
    /\ r_warnings = <<>>
    /\ r_errors = 0
    /\ IdleExcept("r")

NextRead == OpenFile \/ NextLine \/ EndOfFile

SpecRead == InitRead /\ [][NextRead]_vars

(***************************************************************************)
(* SpecList: one call of list_multiline_json_in_dir on a local folder       *)
(***************************************************************************)
InitList ==
    /\ l_pc = "list"
    /\ l_dir \in Folders
    /\ l_resource \in Filters
    /\ l_target = NoFilter
    /\ l_children = <<>>
    /\ l_next = 1
    /\ l_results = <<>>
    /\ l_warnings = <<>>
    /\ IdleExcept("l")

NextList == ListChildren \/ ExamineChild \/ ReturnResults

SpecList == InitList /\ [][NextList]_vars

(***************************************************************************)
(* SpecDir: one read_multiline_json_from_dir generator on a local folder,   *)
(* consumed to its end                                                      *)
(***************************************************************************)
InitDir ==
    /\ d_pc = "list"
    /\ d_dir \in DirFolders
    /\ d_resource \in Filters
    /\ d_listing = <<>>
    /\ d_next = 1
    /\ d_reader = NoReader
    /\ d_rows = <<>>
    /\ IdleExcept("d")

NextDir == DirList \/ DirOpen \/ DirLine \/ DirFileEnd \/ DirEnd

SpecDir == InitDir /\ [][NextDir]_vars

(***************************************************************************)
(* SpecWalk: one call of _list_local_files on a tree with symbolic links;   *)
(* SpecWalkFair: the same call, which does not stop on its own              *)
(***************************************************************************)
InitWalk ==
    /\ w_pc = "start"
    /\ w_exists \in BOOLEAN
    /\ w_links \in [LinkNames -> LinkTargets \cup {NoLink}]
    /\ w_exists \/ w_links = [n \in LinkNames |-> NoLink]
    /\ w_recursive \in BOOLEAN
    /\ w_loop_raises \in BOOLEAN
    /\ w_stack = <<>>
    /\ w_results = {}
    /\ w_scans = 0
    /\ IdleExcept("w")

NextWalk == WalkStart \/ WalkDir \/ WalkEnd

SpecWalk == InitWalk /\ [][NextWalk]_vars

SpecWalkFair == SpecWalk /\ WF_vars(NextWalk)

(***************************************************************************)
(* Claims                                                                  *)
(***************************************************************************)
RECURSIVE SumSeq(_)
SumSeq(s) == IF s = <<>> THEN 0 ELSE Head(s) + SumSeq(Tail(s))

AllGiven(callbacks) == callbacks.request /\ callbacks.error /\ callbacks.retry

\* The exceptions that are not NetworkErrors
Escaped(out) == out.kind \in {"KeyError", "IndexError", "TypeError"}

\* The request log entry i is the first request of its loop iteration
FirstOfSlot(log, i) == i = 1 \/ log[i - 1].slot # log[i].slot

\* C1: against a server that answers every attempt with a temporary-class
\* status and no Retry-After header, http_request with retry_delays [d1..dn]
\* sends n+1 requests, sleeps d1*60, ..., dn*60 seconds in that order, calls
\* request_callback and error_callback n+1 times each and retry_callback n
\* times, and raises a TemporaryNetworkError.
C1_TemporaryServerAsClaimed ==
    LET n == Len(h_plan)
        temporary == \A i \in 1..Len(h_log) : h_log[i].status \in TemporaryStatuses
    IN  (h_pc = "done" /\ h_plain /\ temporary /\ AllGiven(h_callbacks)) =>
            /\ h_result.kind = "TemporaryNetworkError"
            /\ Len(h_log) = n + 1
            /\ h_sleeps = [i \in 1..n |-> h_plan[i] * 60]
            /\ h_calls.request = n + 1
            /\ h_calls.error = n + 1
            /\ h_calls.retry = n

\* C2: an evaluated error that is Fatal, or that belongs to the final (None)
\* slot, ends the call in that same iteration: it is the exception raised, and
\* no request, sleep or retry_callback follows it, whatever slots remain.
C2_FatalRaisedAtOnce ==
    \A i \in 1..Len(h_evaluated) :
        LET e == h_evaluated[i]
        IN  (e.kind = "FatalNetworkError" \/ DelayIsNone(h_plan, e.slot)) =>
                /\ i = Len(h_evaluated)
                /\ h_pc = "done"
                /\ h_result = h_error
                /\ h_result.kind = e.kind
                /\ Len(h_log) = e.requests
                /\ Len(h_sleeps) = e.slot - 1
                /\ h_calls.retry = (IF h_callbacks.retry THEN e.slot - 1 ELSE 0)

\* C2 happens: a Fatal error after a 401 sub-retry, raised in the first
\* iteration with two delays left.
C2_Witness ==
    /\ h_pc = "done"
    /\ h_result.kind = "FatalNetworkError"
    /\ Len(h_plan) = 2
    /\ h_slot = 1
    /\ Len(h_log) = 2
    /\ h_log[1].status = 401
    /\ h_sleeps = <<>>

\* C3: with auth_callback given, a 401 answer to the first request of an
\* iteration is followed by one auth_callback call and one more request in the
\* same iteration with the refreshed headers; a server that answers 401 every
\* time gets exactly 2 requests and 1 auth_callback call, with no sleep, and
\* the call raises a FatalNetworkError carrying the 401 response.
C3_ReauthAsClaimed ==
    h_auth_callback =>
        /\ \A i \in 1..Len(h_log) :
            (h_log[i].status = 401 /\ FirstOfSlot(h_log, i)) =>
                \/ i = Len(h_log) /\ h_pc = "reauth"
                \/ /\ i < Len(h_log)
                   /\ h_log[i + 1].slot = h_log[i].slot
                   /\ h_log[i + 1].headers = h_log[i].headers + 1
        /\ (h_pc = "done" /\ \A i \in 1..Len(h_log) : h_log[i].status = 401) =>
                /\ h_result.kind = "FatalNetworkError"
                /\ h_result.response.status = 401
                /\ Len(h_log) = 2
                /\ h_calls.auth = 1
                /\ h_sleeps = <<>>

\* The seconds a Retry-After header asks for, read at clock `now`: the
\* integer, or the whole seconds until the date, not below zero.
Parsable(h) == (h.t = "text" /\ PyInt(h.s).ok) \/ (h.t = "date" /\ h.aware)
ServerSeconds(h, now) ==
    IF h.t = "text" THEN Max(0, PyInt(h.s).val)
    ELSE Max(0, (h.ts * TicksPerSecond - now) \div TicksPerSecond)

\* C4: the i-th sleep is min(server-requested seconds, delay * 60) when the
\* failed response has a parsable Retry-After header and delay * 60 otherwise;
\* no sleep is longer than its slot's delay and the sleeps of a call add up to
\* at most 60 times the sum of retry_delays.
C4_WaitsCapped ==
    /\ \A i \in 1..Len(h_sleeps) :
        LET e == h_evaluated[i]
            limit == h_plan[i] * 60
        IN  /\ e.slot = i
            /\ h_sleeps[i] = IF Parsable(e.retry_after)
                             THEN Min(ServerSeconds(e.retry_after, e.now), limit)
                             ELSE limit
            /\ h_sleeps[i] <= limit
    /\ SumSeq(h_sleeps) <= 60 * SumSeq(h_plan)

\* C4 happens: one sleep cut short by the server, one capped by the caller.
C4_Witness ==
    /\ Len(h_sleeps) = 2
    /\ h_evaluated[1].retry_after = TextHeader(<<"1", "0">>)
    /\ h_sleeps[1] = 10
    /\ h_evaluated[2].retry_after = TextHeader(<<"2", "0", "0">>)
    /\ h_sleeps[2] = h_plan[2] * 60
    /\ h_sleeps[2] < 200

\* C5: _request_once raises a FatalNetworkError without a response for a
\* transport error, a TemporaryNetworkError with the response for a status in
\* {408, 429, 500, 502, 503, 504}, a FatalNetworkError with the response for
\* any other status outside 2xx, and returns the response for a 2xx status.
C5_ClassifiedAsClaimed ==
    o_pc = "done" =>
        LET s == o_reply.status
        IN  IF o_reply.kind = "transport"
            THEN o_result.kind = "FatalNetworkError" /\ o_result.response = NoResponse
            ELSE /\ o_result.response = o_reply
                 /\ o_result.kind =
                        IF s \in {408, 429, 500, 502, 503, 504} THEN "TemporaryNetworkError"
                        ELSE IF s \in 200..299 THEN "response"
                        ELSE "FatalNetworkError"

\* C6: request() called in any state but Ready (before entry, after a failed
\* entry, after exit) signals the usage error and sends nothing.
C6_OnlyWhenReady ==
    \A i \in 1..Len(c_requests) :
        c_requests[i].state # "ready" => c_requests[i].outcome = "usage error"

\* C7: whenever control is outside the context (never entered, left by
\* __aexit__, or thrown out of __aenter__), no session is open.
C7_SessionsClosed ==
    c_pc \in {"unopened", "closed", "failed"} => c_open = 0

\* A statement that decodes but is not a CapabilityStatement object
Malformed(statement) == statement.json = "list" \/ statement.software = "string"

ProbeFailed(probe) ==
    \/ probe.kind = "NetworkError"
    \/ probe.kind = "response" /\ probe.statement.json = "invalid"
    \/ probe.kind = "response" /\ Malformed(probe.statement)

\* C8: before entry the capability statement is empty; after a metadata fetch
\* that met a network error, a decode error or a malformed statement it is
\* empty, the server type is UNKNOWN, and nothing was raised on the way to the
\* authorize step.
C8_ProbeFailureIsQuiet ==
    /\ c_pc = "unopened" => c_capabilities = EmptyStatement
    /\ (c_pc \notin {"unopened", "opened"} /\ ProbeFailed(c_probe)) =>
            /\ c_capabilities = EmptyStatement
            /\ c_server_type = "UNKNOWN"
            /\ c_raised \in {None, "AuthError"}

\* C9: parse_retry_after returns n for a header that is the decimal integer
\* n >= 0, returns 0 for an HTTP-date in the past, the whole number of seconds
\* until the timestamp for an HTTP-date in the future, and the supplied
\* default when the header is absent or unparseable.
C9_ParseAsClaimed ==
    p_pc = "done" =>
        LET h == p_header
            untilTs == h.ts * TicksPerSecond - p_now
        IN  /\ (h.t = "text" /\ AllDigits(h.s)) => p_result = Returned(DigitsValue(h.s))
            /\ (h.t = "date" /\ untilTs <= 0) => p_result = Returned(0)
            /\ (h.t = "date" /\ untilTs > 0) => p_result = Returned(untilTs \div TicksPerSecond)
            /\ (h.t = "absent" \/ (h.t = "text" /\ ~PyInt(h.s).ok)) => p_result = Returned(p_default)

\* C10: whatever the header and the default, parse_retry_after never returns a
\* negative number.
C10_NeverNegative ==
    (p_pc = "done" /\ p_result.kind = "return") => p_result.value >= 0


RECURSIVE KeyPaths(_)
KeyPaths(shape) ==
    UNION {{<<k>>} \cup {<<k>> \o p : p \in KeyPaths(shape.kids[k])} : k \in DOMAIN shape.kids}

\* C11: reducing [A, B], [B, A] and [A, B, A] gives equal shapes, and every
\* key path of a row already merged is in the shape.
C11_MergeCommutesAndKeeps ==
    /\ m_pc \in {"row", "done"} /\ m_next >= 3
          => m_shape = ShapeOfRows(EmptyShape, <<m_rows[2], m_rows[1]>>)
    /\ m_pc \in {"row", "done"}
          => \A i \in 1..(m_next - 1) :
                KeyPaths(get_shape_of_dicts(NoShape, m_rows[i])) \subseteq KeyPaths(m_shape)

\* A, B and A again are merged, the rows differ, share a key and each brings
\* a path of its own.
C11_Witness ==
    /\ m_pc = "done"
    /\ Len(m_rows) = 3
    /\ m_rows[1] # m_rows[2]
    /\ <<"a", "b">> \in KeyPaths(get_shape_of_dicts(NoShape, m_rows[1]))
    /\ <<"a", "a">> \in KeyPaths(get_shape_of_dicts(NoShape, m_rows[2]))
    /\ {<<"a", "a">>, <<"a", "b">>} \subseteq KeyPaths(m_shape)

\* ---- the schema of pyarrow_schema_from_rows, read by name paths ----
Inner(type) == IF type.k = "list" THEN type.of ELSE type

\* The names of the fields under the field at `path` ({} if there is none)
RECURSIVE ChildNames(_, _)
ChildNames(fields, path) ==
    IF path = <<>> THEN FieldNames(fields)
    ELSE IF Head(path) \in FieldNames(fields)
    THEN ChildNames(Inner(FieldNamed(fields, Head(path)).type).fields, Tail(path))
    ELSE {}

InSchema(fields, path) ==
    path[Len(path)] \in ChildNames(fields, SubSeq(path, 1, Len(path) - 1))

\* The declared type of the property at `path` below `type` ("" if undeclared)
RECURSIVE DeclaredType(_, _, _)
DeclaredType(table, type, path) ==
    IF path = <<>> THEN type
    ELSE IF type \notin DOMAIN table THEN ""
    ELSE LET props == table[type]
             hits == {i \in DOMAIN props : props[i].json_name = Head(path)}
         IN  IF hits = {} THEN ""
             ELSE DeclaredType(table, props[CHOOSE i \in hits : TRUE].pytype, Tail(path))

\* The paths of the batch that lead to a declared element of a full_schema_type
ObservedFullElements ==
    {p \in KeyPaths(s_batch_shape) :
        DeclaredType(FhirTable, s_resource_type, p) \in full_schema_types}

NonExtensionChildren(type) ==
    {FhirTable[type][i].json_name :
        i \in {j \in DOMAIN FhirTable[type] : FhirTable[type][j].pytype # "Extension"}}

SchemaReturned == s_pc = "done" /\ ~s_schema.err

\* C12 as stated: an observed CodeableConcept, Coding, Period or Reference
\* element is in the schema with every declared non-extension child.
C12_FullySpecifiedAsClaimed ==
    (SchemaReturned /\ s_spot = <<>>) =>
        \A p \in ObservedFullElements :
            /\ InSchema(s_schema.fields, p)
            /\ NonExtensionChildren(DeclaredType(FhirTable, s_resource_type, p))
                   \subseteq ChildNames(s_schema.fields, p)

\* C12: an observed CodeableConcept, Coding, Period or Reference element is in
\* the schema with every declared non-extension child, observed or not, other
\* than the `identifier` child of a Reference; that child is in the schema
\* only when a part of the identifier was observed.
C12_FullySpecifiedButIdentifier ==
    (SchemaReturned /\ s_spot = <<>>) =>
        \A p \in ObservedFullElements :
            LET type == DeclaredType(FhirTable, s_resource_type, p)
                identifier == p \o <<"identifier">>
            IN  /\ InSchema(s_schema.fields, p)
                /\ NonExtensionChildren(type) \ (IF type = "Reference" THEN {"identifier"} ELSE {})
                       \subseteq ChildNames(s_schema.fields, p)
                /\ (type = "Reference" /\ InSchema(s_schema.fields, identifier)) =>
                       \E q \in KeyPaths(s_batch_shape) :
                           /\ Len(q) = Len(identifier) + 1
                           /\ SubSeq(q, 1, Len(identifier)) = identifier

\* A Coding two levels down was observed by its version alone, next to a
\* Reference observed by its display alone and one observed by its identifier.
C12_Witness ==
    /\ SchemaReturned /\ s_spot = <<>> /\ s_resource_type = "Condition"
    /\ {<<"code", "coding">>, <<"stage", "assessment">>, <<"subject">>} \subseteq ObservedFullElements
    /\ <<"code", "coding", "display">> \notin KeyPaths(s_batch_shape)
    /\ ChildNames(s_schema.fields, <<"code", "coding">>)
           = {"id", "code", "display", "system", "userSelected", "version"}
    /\ ChildNames(s_schema.fields, <<"stage", "assessment">>)
           = {"id", "display", "reference", "type"}
    /\ ChildNames(s_schema.fields, <<"subject", "identifier">>) = {"value"}

RECURSIVE AllNullable(_)
AllNullable(fields) ==
    \A i \in DOMAIN fields :
        fields[i].nullable /\ AllNullable(Inner(fields[i].type).fields)

DeclaredNames(type) == [i \in DOMAIN FhirTable[type] |-> FhirTable[type][i].json_name]

SunderNames(type) == {"_" \o FhirTable[type][i].json_name : i \in DOMAIN FhirTable[type]}

SchemaNames == [i \in DOMAIN s_schema.fields |-> s_schema.fields[i].name]

\* C13: whatever the resource type and the batch, the schema starts with a
\* string field resourceType, the fields after it that are not "_" siblings
\* are the top-level declared properties in declared order, one each, and
\* every field at every depth is nullable.
C13_WideAndNullable ==
    SchemaReturned =>
        /\ s_schema.fields[1] = Field("resourceType", Basic("string"), TRUE)
        /\ SelectSeq(Tail(SchemaNames), LAMBDA n : n \notin SunderNames(s_resource_type))
               = DeclaredNames(s_resource_type)
        /\ AllNullable(s_schema.fields)

\* A Condition schema built from a batch that shows a "_" sibling and the
\* required url of an extension; subject is declared required.
C13_Witness ==
    /\ SchemaReturned /\ s_resource_type = "Condition"
    /\ \E i \in DOMAIN FhirTable["Condition"] :
           FhirTable["Condition"][i].json_name = "subject" /\ FhirTable["Condition"][i].required
    /\ InSchema(s_schema.fields, <<"_recordedDate", "id">>)
    /\ InSchema(s_schema.fields, <<"code", "extension", "url">>)
    /\ Len(s_schema.fields) = Len(FhirTable["Condition"]) + 2

TypeOfField(fields, name) == Inner(FieldNamed(fields, name).type)

OnlyPrimitives(type) ==
    \A i \in DOMAIN type.fields : Inner(type.fields[i].type).k # "struct"

EmptyBatch == s_rows = <<>>

C15_CoversBatch ==
    (SchemaReturned /\ s_spot = <<>>) =>
        \A p \in KeyPaths(s_batch_shape) :
            DeclaredType(FhirTable, s_resource_type, p) # "" => InSchema(s_schema.fields, p)

MaxDepth == 4            \* longest declared path followed from a resource

\* The declared paths of at most n names below a type
RECURSIVE DeclaredPaths(_, _)
DeclaredPaths(type, n) ==
    IF n = 0 \/ type \notin DOMAIN FhirTable THEN {}
    ELSE UNION {{<<FhirTable[type][i].json_name>>} \cup
                {<<FhirTable[type][i].json_name>> \o q :
                    q \in DeclaredPaths(FhirTable[type][i].pytype, n - 1)} :
                i \in DOMAIN FhirTable[type]}

\* The declared paths below a resource type that end at the property `spot`
SpotPaths ==
    [type \in ResourceTypes |->
        [spot \in UnexpectedSpots \ {<<>>} |->
            {p \in DeclaredPaths(type, MaxDepth) :
                /\ DeclaredType(FhirTable, type, SubSeq(p, 1, Len(p) - 1)) = spot[1]
                /\ p[Len(p)] = spot[2]}]]

\* The walk that starts at `level` on `type` with `shape` converts the
\* property at path p: every struct on the way is at level 0, observed or a
\* non-extension child of a full_schema_type, and so is the property itself,
\* which may also be at level 1.
Reached(type, shape, level, p) ==
    \A k \in 1..Len(p) :
        LET parent == DeclaredType(FhirTable, type, SubSeq(p, 1, k - 1))
            here == DeclaredType(FhirTable, type, SubSeq(p, 1, k))
            observed == shape.present /\ SubSeq(p, 1, k) \in KeyPaths(shape)
            forced == parent \in full_schema_types /\ here # "Extension"
            free == IF here \in DOMAIN FhirTable THEN level + k - 1 < 1
                    ELSE level + k - 1 <= 1
        IN  free \/ observed \/ forced

SpotReached ==
    \/ \E p \in SpotPaths[s_resource_type][s_spot] : Reached(s_resource_type, s_batch_shape, 0, p)
    \/ \E type \in s_contained_types :
          \E p \in SpotPaths[type][s_spot] :
              Reached(type, Get(s_batch_shape, "contained"), 2, p)

RECURSIVE AllKnown(_)
AllKnown(fields) ==
    \A i \in DOMAIN fields :
        Inner(fields[i].type).k # "" /\ AllKnown(Inner(fields[i].type).fields)

\* C16 as stated: a property of unknown primitive type anywhere in the
\* declared property tree of the resource type makes the construction fail.
C16_AbortsAsClaimed ==
    (s_pc = "done" /\ s_spot # <<>> /\ SpotPaths[s_resource_type][s_spot] # {}) => s_schema.err

\* C16: the construction fails exactly when a property of unknown primitive
\* type is reached by the walk: at the top level of the resource, directly
\* inside a top-level composite, on a path observed in the batch, or as a
\* non-extension child of a CodeableConcept, Coding, Period or Reference that
\* is walked.  No field of a returned schema has an unknown type.
C16_AbortsWhenReached ==
    /\ (s_pc = "done" /\ s_spot # <<>>) => (s_schema.err <=> SpotReached)
    /\ SchemaReturned => AllKnown(s_schema.fields)

\* The value of a Quantity two levels down has an unknown type and the batch
\* shows it: the construction fails.
C16_Witness ==
    /\ s_pc = "done" /\ s_schema.err
    /\ s_resource_type = "Condition" /\ s_spot = <<"Quantity", "value">>
    /\ <<"onsetRange", "low", "value">> \in KeyPaths(s_batch_shape)

NarrowSchema(type) ==
    create_pyarrow_schema_for_resource(WithUnexpectedType(FhirTable, s_spot), type,
                                       Get(s_batch_shape, "contained"), FALSE)

ContainedField == FieldNamed(s_schema.fields, "contained")

ContainedNames ==
    [i \in DOMAIN ContainedField.type.of.fields |-> ContainedField.type.of.fields[i].name]

Position(order, name) == CHOOSE i \in DOMAIN order : order[i] = name

\* C17: with contained resource types T1..Tk in the batch, `contained` is a
\* list of structs whose fields are the union by name of the narrow schemas
\* of the Ti, in name order; each is a key observed under `contained` and is
\* resourceType or declared by some Ti.  With no contained type, `contained`
\* is the field of the wide schema, holding at least the primitives of
\* Resource.
C17_ContainedUnion ==
    SchemaReturned =>
        IF s_contained_types = {}
        THEN /\ ContainedField =
                    FieldNamed(create_pyarrow_schema_for_resource(
                                   WithUnexpectedType(FhirTable, s_spot), s_resource_type,
                                   s_batch_shape, TRUE).fields, "contained")
             /\ {"id", "implicitRules", "language"} \subseteq ChildNames(s_schema.fields, <<"contained">>)
             /\ "gender" \notin ChildNames(s_schema.fields, <<"contained">>)
        ELSE /\ ContainedField.type.k = "list" /\ ContainedField.type.of.k = "struct"
             /\ ContainedField.nullable
             /\ FieldNames(ContainedField.type.of.fields)
                    = UNION {FieldNames(NarrowSchema(type).fields) : type \in s_contained_types}
             /\ \A i \in DOMAIN ContainedNames : \A j \in DOMAIN ContainedNames :
                    i < j => Position(NameOrder, ContainedNames[i]) < Position(NameOrder, ContainedNames[j])
             /\ \A i \in DOMAIN ContainedNames :
                    LET name == ContainedNames[i]
                    IN  /\ name \in DOMAIN Get(s_batch_shape, "contained").kids
                        /\ \E type \in s_contained_types :
                               /\ name \in FieldNames(NarrowSchema(type).fields)
                               /\ ContainedField.type.of.fields[i]
                                      = FieldNamed(NarrowSchema(type).fields, name)
                               /\ \/ name = "resourceType"
                                  \/ name \in SunderNames(type)
                                  \/ \E k \in DOMAIN FhirTable[type] :
                                         FhirTable[type][k].json_name = name

\* A Medication and a Patient are contained: code comes from the one, gender
\* from the other; status and birth details were not observed, extraField is
\* not declared.
C17_Witness ==
    /\ SchemaReturned /\ s_resource_type = "Condition"
    /\ s_contained_types = {"Medication", "Patient"}
    /\ "extraField" \in DOMAIN Get(s_batch_shape, "contained").kids
    /\ ContainedNames = <<"code", "gender", "resourceType">>
    /\ ChildNames(s_schema.fields, <<"contained", "code">>) = {"id", "coding", "text"}

\* ---- list_multiline_json_in_dir, as the specification tells it ----
\* The first non-empty line of a file (<<>> if it has none)
RECURSIVE FirstRecordAt(_, _)
FirstRecordAt(bytes, pos) ==
    IF pos >= Len(bytes) THEN <<>>
    ELSE LET line == LineAt(bytes, pos)
         IN  IF rstrip(line) # <<>> THEN rstrip(line)
             ELSE FirstRecordAt(bytes, pos + Len(line))

\* The candidates: the well-named regular files whose first record decodes
Candidates ==
    {name \in list_local_files(l_dir) :
        /\ valid_filename(name)
        /\ l_dir.entries[name].file.readable
        /\ FirstRecordAt(l_dir.entries[name].file.bytes, 0) # <<>>
        /\ json_loads(FirstRecordAt(l_dir.entries[name].file.bytes, 0)).kind = "value"}

\* The resource type of a candidate's first record
DetectedType(name) ==
    LET first == json_loads(FirstRecordAt(l_dir.entries[name].file.bytes, 0)).value
    IN  IF first.t = "object" THEN first.v ELSE None

Passes(type, resource) == resource.kind = "None" \/ type \in resource.v

\* C18: list_multiline_json_in_dir returns exactly the candidates whose
\* detected type passes the filter (all of them without a filter), each with
\* its type, keyed in ascending path order, and logs nothing about a file
\* that fails the filter.
C18_ListedAsClaimed ==
    l_pc \in {"done", "raised"} =>
        LET passing == Sorted({name \in Candidates : Passes(DetectedType(name), l_resource)},
                              PathOrder)
        IN  /\ l_pc = "done"
            /\ l_results = [i \in DOMAIN passing |->
                               [path |-> passing[i], type |-> DetectedType(passing[i])]]
            /\ \A i \in DOMAIN l_warnings : l_warnings[i] \notin Candidates

\* ---- the lines of a file, as the specification tells them ----
RECURSIVE SplitLines(_, _)
SplitLines(bytes, pos) ==
    IF pos >= Len(bytes) THEN <<>>
    ELSE <<LineAt(bytes, pos)>> \o SplitLines(bytes, pos + Len(LineAt(bytes, pos)))

NonEmptyLines(bytes, pos) == SelectSeq(SplitLines(bytes, pos), LAMBDA line : rstrip(line) # <<>>)

DecodableLines(bytes, pos) ==
    SelectSeq(NonEmptyLines(bytes, pos), LAMBDA line : json_loads(line).kind = "value")

Jsons(items) == [i \in DOMAIN items |-> items[i].json]

\* C19: read_multiline_json yields, in file order, the parsed value of every
\* non-empty line that decodes and nothing else; an empty line is skipped
\* without a log, an undecodable line with one warning, and the lines after
\* an undecodable line are still yielded.
C19_EveryLineAsClaimed ==
    (r_pc = "done" /\ r_file.readable /\ r_offset = 0) =>
        LET decodable == DecodableLines(r_file.bytes, 0)
        IN  /\ Jsons(r_yielded) = [i \in DOMAIN decodable |-> json_loads(decodable[i]).value]
            /\ Len(r_warnings) = Len(NonEmptyLines(r_file.bytes, 0)) - Len(decodable)
            /\ r_errors = 0

RECURSIVE TotalBytes(_)
TotalBytes(lines) == IF lines = <<>> THEN 0 ELSE Len(Head(lines)) + TotalBytes(Tail(lines))

\* C20: every item yielded from `offset` carries as line_num the number of
\* lines read before its own since the offset, empty and undecodable ones
\* included, and as byte_offset the bytes of those lines; a read restarted at
\* offset + byte_offset yields the same record first, with line_num 0 and
\* byte_offset 0, and then the same later records.
C20_OffsetsRestart ==
    (r_pc = "done" /\ r_file.readable) =>
        \A i \in DOMAIN r_yielded :
            LET item == r_yielded[i]
                lines == SplitLines(r_file.bytes, r_offset)
                again == read_multiline_json_with_details(r_file,
                                                          r_offset + item.byte_offset).yielded
            IN  /\ item.line_num < Len(lines)
                /\ json_loads(lines[item.line_num + 1]) = Decoded(item.json)
                /\ item.byte_offset = TotalBytes(SubSeq(lines, 1, item.line_num))
                /\ LineAt(r_file.bytes, r_offset + item.byte_offset) = lines[item.line_num + 1]
                /\ Len(again) = Len(r_yielded) - i + 1
                /\ again[1] = Item(item.json, 0, 0)
                /\ \A k \in DOMAIN again :
                       again[k] = Item(r_yielded[i + k - 1].json,
                                       r_yielded[i + k - 1].line_num - item.line_num,
                                       r_yielded[i + k - 1].byte_offset - item.byte_offset)

\* A read from inside the first line: the fragment is reported, then two
\* records are yielded, the second on a CR LF line.
C20_Witness ==
    /\ r_pc = "done" /\ r_file.readable /\ r_offset > 0
    /\ r_warnings = <<1>>
    /\ Len(r_yielded) = 2
    /\ r_yielded[1].line_num = 1 /\ r_yielded[1].byte_offset = 3
    /\ r_yielded[2] = Item(Object("Condition"), 2, 6)

\* ---- an offset inside a record ----
\* Where the line holding byte `offset` starts
LineStart(bytes, offset) ==
    LET lines == SplitLines(bytes, 0)
        starts == {TotalBytes(SubSeq(lines, 1, k)) : k \in 0..(Len(lines) - 1)}
    IN  CHOOSE s \in starts : s <= offset /\ \A t \in starts : t <= offset => t <= s

\* The offset lies inside the text of a record: after the first and before
\* the last byte's end of a line's JSON text, and the whole line decodes
MidRecord(bytes, offset) ==
    /\ offset < Len(bytes)
    /\ LET start == LineStart(bytes, offset)
           body == rstrip(LineAt(bytes, start))
       IN  /\ json_loads(LineAt(bytes, start)).kind = "value"
           /\ offset - start > Len(body) - Len(lstrip(body))
           /\ offset - start < Len(body)

\* The items of the lines k.. of `lines` that are not empty and decode, each
\* with its index and the bytes before it
RECURSIVE ItemsFrom(_, _)
ItemsFrom(lines, k) ==
    IF k > Len(lines) THEN <<>>
    ELSE (IF rstrip(lines[k]) # <<>> /\ json_loads(lines[k]).kind = "value"
          THEN <<Item(json_loads(lines[k]).value, k - 1, TotalBytes(SubSeq(lines, 1, k - 1)))>>
          ELSE <<>>) \o ItemsFrom(lines, k + 1)

\* C21: a read from an offset inside a record never yields the fragment up
\* to the next newline; the fragment is logged as one decode failure (line 1)
\* and every full line after it is yielded as usual (a warning for each that
\* does not decode), numbered and measured from the offset.
C21_FragmentAsClaimed ==
    (r_pc = "done" /\ r_file.readable /\ MidRecord(r_file.bytes, r_offset)) =>
        LET lines == SplitLines(r_file.bytes, r_offset)
            later == SelectSeq(Tail(lines), LAMBDA line : rstrip(line) # <<>>)
            bad == SelectSeq(later, LAMBDA line : json_loads(line).kind # "value")
        IN  /\ r_errors = 0
            /\ r_yielded = ItemsFrom(lines, 2)
            /\ Len(r_warnings) = 1 + Len(bad)
            /\ r_warnings[1] = 1

\* ---- failures of the listing and of the reader ----
\* The well-named files whose first line cannot be read, or is there and
\* does not decode
FailingFiles ==
    {name \in list_local_files(l_dir) :
        /\ valid_filename(name)
        /\ \/ ~l_dir.entries[name].file.readable
           \/ LET line == rstrip(LineAt(l_dir.entries[name].file.bytes, 0))
              IN  line # <<>> /\ json_loads(line).kind # "value"}

\* The well-named files whose first line decodes to a type the filter takes
SoundFiles ==
    {name \in list_local_files(l_dir) :
        /\ valid_filename(name)
        /\ l_dir.entries[name].file.readable
        /\ LET line == rstrip(LineAt(l_dir.entries[name].file.bytes, 0))
               value == json_loads(line).value
           IN  /\ line # <<>>
               /\ json_loads(line).kind = "value"
               /\ Passes(IF value.t = "object" THEN value.v ELSE None, l_resource)}

\* C22: no failure escapes.  Listing never raises; a missing folder gives an
\* empty result and no log; every file whose first line cannot be read or
\* decoded is left out with one warning and the sound files are all listed;
\* reading a file that cannot be opened logs one error and yields nothing.
C22_NothingEscapes ==
    /\ l_pc # "raised"
    /\ l_pc = "done" =>
        /\ ~l_dir.exists => (l_results = <<>> /\ l_warnings = <<>>)
        /\ l_warnings = Sorted(FailingFiles, PathOrder)
        /\ \A i \in DOMAIN l_results : l_results[i].path \notin FailingFiles
        /\ SoundFiles \subseteq {l_results[i].path : i \in DOMAIN l_results}
    /\ (r_pc = "done" /\ ~r_file.readable) =>
        (r_errors = 1 /\ r_yielded = <<>> /\ r_warnings = <<>>)

\* ---- the records of the listed files ----
\* The records of a file, as rows: every non-empty line that decodes
RowsOf(path, file) ==
    LET items == ItemsFrom(SplitLines(file.bytes, 0), 1)
    IN  [i \in DOMAIN items |-> Row(items[i].json, path, items[i].line_num)]

\* The records of the listed files k.., file after file
RECURSIVE RowsFrom(_)
RowsFrom(k) ==
    IF k > Len(d_listing) THEN <<>>
    ELSE RowsOf(d_listing[k].path, d_dir.entries[d_listing[k].path].file) \o RowsFrom(k + 1)

\* C23: read_multiline_json_from_dir yields every record of every listed
\* file and nothing else, the files in ascending path order, the records of
\* a file in line order and never between those of another file; a file the
\* listing leaves out gives no record.
C23_EveryRecordAsClaimed ==
    d_pc = "done" =>
        /\ d_listing = list_multiline_json_in_dir(d_dir, d_resource).results
        /\ \A i, j \in DOMAIN d_listing :
               i < j => Position(PathOrder, d_listing[i].path) < Position(PathOrder, d_listing[j].path)
        /\ d_rows = RowsFrom(1)

\* ---- the message of a failed request, as the specification orders it ----
ClaimedMessage(body) ==
    IF body.json = "object" /\ body.resourceType = "OperationOutcome" /\ body.issue = "details"
    THEN "details"
    ELSE IF /\ body.json = "object" /\ body.resourceType = "OperationOutcome"
            /\ body.issue = "diagnostics"
    THEN "diagnostics"
    ELSE IF body.json = "object" /\ body.error_description THEN "error_description"
    ELSE IF body.json = "object" /\ body.error_uri THEN "error_uri"
    ELSE IF body.text THEN "text"
    ELSE "exc"

\* C24: for a response outside 2xx the raised error carries the response
\* (its status) and a message taken from, in this order, the first issue's
\* details text, its diagnostics, error_description, error_uri, the raw
\* response text, the transport library's own error string.
C24_MessageAsClaimed ==
    (o_pc = "done" /\ o_reply.kind = "response" /\ ~IsSuccess(o_reply.status)) =>
        /\ IsNetworkError(o_result)
        /\ o_result.response = o_reply
        /\ o_result.message = ClaimedMessage(o_reply.body)

\* C25: the type of a candidate is read off its first non-empty line: a
\* well-named file whose first record decodes to a type the filter takes is
\* listed with that type, whatever empty lines come before the record.
C25_FirstRecordDetected ==
    l_pc = "done" =>
        \A name \in Candidates :
            Passes(DetectedType(name), l_resource) =>
                \E i \in DOMAIN l_results :
                    l_results[i] = [path |-> name, type |-> DetectedType(name)]

\* C26: the listing of a finite tree comes to its end and returns, also
\* when symbolic links form a cycle (a link to an ancestor, links that point
\* at each other); what it returns are regular files under their resolved
\* paths, each once (`results` is a set of resolved paths).
C26_ListingTerminates ==
    /\ [](w_results \subseteq RegularFiles)
    /\ <>(w_pc = "done")

\* ---- sunder fields ----
\* The name paths of a schema's fields, at every depth
RECURSIVE SchemaPaths(_)
SchemaPaths(fields) ==
    UNION {{<<fields[i].name>>} \cup
           {<<fields[i].name>> \o p : p \in SchemaPaths(Inner(fields[i].type).fields)} :
           i \in DOMAIN fields}

\* The field of the schema at a path that is in the schema
RECURSIVE SchemaField(_, _)
SchemaField(fields, path) ==
    IF Len(path) = 1 THEN FieldNamed(fields, Head(path))
    ELSE SchemaField(Inner(FieldNamed(fields, Head(path)).type).fields, Tail(path))

AllSunderNames == UNION {SunderNames(type) : type \in DOMAIN FhirTable}

\* The walked levels of the resource's own tree: the root, and every struct
\* of the schema at a path the property tables declare.  The fields merged in
\* under `contained` come from other walks and are left aside.
WalkedLevels ==
    {<<>>} \cup {q \in SchemaPaths(s_schema.fields) :
                    /\ Head(q) # "contained"
                    /\ DeclaredType(FhirTable, s_resource_type, q) \in DOMAIN FhirTable}

ElementParts == {"id", "extension"}

\* The parts of id / extension observed under the sunder at path sp
ObservedParts(sp) == {c \in ElementParts : (sp \o <<c>>) \in KeyPaths(s_batch_shape)}

\* C27: at every walked level, the sunder `_p` of a declared property p is
\* in the schema exactly when it was observed there with an `id` or an
\* `extension` part; it is a struct, or a list of structs when p is a list,
\* holding exactly the observed parts; and no other sunder field is there.
C27_SundersAsClaimed ==
    (SchemaReturned /\ s_spot = <<>>) =>
        /\ \A q \in WalkedLevels :
             LET props == FhirTable[DeclaredType(FhirTable, s_resource_type, q)]
             IN  \A i \in DOMAIN props :
                    LET sp == q \o <<"_" \o props[i].json_name>>
                    IN  /\ InSchema(s_schema.fields, sp) <=> ObservedParts(sp) # {}
                        /\ InSchema(s_schema.fields, sp) =>
                              /\ SchemaField(s_schema.fields, sp).type.k =
                                     (IF props[i].is_list THEN "list" ELSE "struct")
                              /\ Inner(SchemaField(s_schema.fields, sp).type).k = "struct"
                              /\ ChildNames(s_schema.fields, sp) = ObservedParts(sp)
        /\ \A sp \in SchemaPaths(s_schema.fields) :
              (Head(sp) # "contained" /\ sp[Len(sp)] \in AllSunderNames) =>
                  LET q == SubSeq(sp, 1, Len(sp) - 1)
                  IN  /\ q \in WalkedLevels
                      /\ sp[Len(sp)] \in SunderNames(DeclaredType(FhirTable, s_resource_type, q))

\* ---- wide but not deep ----
\* The fields of the schema outside `contained` whose parent is not one of
\* the full_schema_types.  The level of a path is the `level` of the walk
\* there: 0 for a property of the resource.
ShallowFields ==
    {p \in SchemaPaths(s_schema.fields) :
        /\ Head(p) # "contained"
        /\ DeclaredType(FhirTable, s_resource_type, SubSeq(p, 1, Len(p) - 1))
              \notin full_schema_types}

IsComposite(p) == Inner(SchemaField(s_schema.fields, p).type).k = "struct"

\* C28: outside CodeableConcept, Coding, Period and Reference the schema is
\* wide but not deep: every property of the resource is a field, and a
\* composite field at level 1 or deeper, or a primitive field at level 2 or
\* deeper, is in the schema only if its path was observed in the batch.
C28_WideNotDeep ==
    (SchemaReturned /\ s_spot = <<>>) =>
        /\ \A i \in DOMAIN FhirTable[s_resource_type] :
              InSchema(s_schema.fields, <<FhirTable[s_resource_type][i].json_name>>)
        /\ \A p \in ShallowFields :
              (IF IsComposite(p) THEN Len(p) - 1 >= 1 ELSE Len(p) - 1 > 1)
                  => p \in KeyPaths(s_batch_shape)

\* A Condition whose stage was observed with its type, and of whose
\* onsetRange only low.value was observed: the stage lists its id and the
\* observed type, onsetRange has no `high`, low has `value` alone, and the
\* unobserved subject (a Reference) is there without its identifier.
C28_Witness ==
    /\ SchemaReturned /\ s_spot = <<>> /\ s_resource_type = "Condition"
    /\ <<"onsetRange", "low", "value">> \in KeyPaths(s_batch_shape)
    /\ <<"onsetRange", "high">> \notin KeyPaths(s_batch_shape)
    /\ <<"stage", "type", "text">> \in KeyPaths(s_batch_shape)
    /\ ChildNames(s_schema.fields, <<"onsetRange">>) = {"id", "low"}
    /\ ChildNames(s_schema.fields, <<"onsetRange", "low">>) = {"value"}
    /\ ChildNames(s_schema.fields, <<"stage">>) = {"id", "type"}
    /\ InSchema(s_schema.fields, <<"stage", "type", "coding">>)
    /\ InSchema(s_schema.fields, <<"subject", "reference">>)
    /\ ~InSchema(s_schema.fields, <<"subject", "identifier">>)

\* C29: every response outside 2xx, whatever its body, makes the request
\* attempt raise a NetworkError, Temporary or Fatal by its status; no other
\* exception leaves the response handling.
C29_AlwaysNetworkError ==
    (o_pc = "done" /\ o_reply.kind = "response" /\ ~IsSuccess(o_reply.status)) =>
        o_result.kind = ErrorClass(o_reply.status)

\* ---- the 401 sub-retry ----
\* The requests of the log that are sub-retries: the second of their slot
SubRetries == {i \in DOMAIN h_log : ~FirstOfSlot(h_log, i)}

\* C30: in one http_request call with n retry delays the 401 sub-retry
\* happens at most once per slot, and when it fails its own failure is the
\* error evaluated next (error_callback, then the Fatal/Temporary test), with
\* no further re-authentication in that slot; hence at most 2(n+1) requests,
\* n+1 auth_callback calls and n+1 error_callback calls.
C30_SubRetryOncePerSlot ==
    LET n == Len(h_plan)
    IN  /\ \A slot \in 1..(n + 1) :
              Cardinality({i \in DOMAIN h_log : h_log[i].slot = slot}) <= 2
        /\ \A i \in SubRetries :
              ~IsSuccess(h_log[i].status) =>
                  \/ /\ i = Len(h_log)
                     /\ h_pc = "evaluate"
                     /\ h_error.response.status = h_log[i].status
                  \/ \E k \in DOMAIN h_evaluated :
                        /\ h_evaluated[k].requests = i
                        /\ h_evaluated[k].slot = h_log[i].slot
                        /\ h_evaluated[k].status = h_log[i].status
        /\ Len(h_log) <= 2 * (n + 1)
        /\ h_calls.auth <= n + 1
        /\ h_calls.error <= n + 1

====
